---- MODULE Spec2Model ----
(***************************************************************************)
(* A model of polars_iptools: the CIDR membership test pl_is_in            *)
(* (src/iptools.rs), the process-wide database caches SPUR_DB and          *)
(* MAXMIND_DB with reload / get_or_init (src/spurdb.rs, src/geoip.rs), and *)
(* the row loops of pl_full_spur, pl_full_geoip and pl_get_asn             *)
(* (src/spur.rs, src/geoip.rs).                                            *)
(*                                                                         *)
(* Addresses are scaled down to AddrBits bits per family; a text value is  *)
(* a record naming its syntactic form, and parsing maps the form to a      *)
(* typed address or to a failure.                                          *)
(***************************************************************************)
EXTENDS Integers, Sequences, FiniteSets, TLC

\* ------------------------------------------------------------------ bounds
\* Width of an address of either family in the model (32 / 128 in the code).
AddrBits == 1
\* Longest range column handed to pl_is_in.
MaxRanges == 2
\* Longest query column handed to pl_is_in.
MaxQueryRows == 1
\* Longest input column handed to an enrichment entry point.
MaxRows == 2
\* Number of times the environment (variables, directories, files) changes.
MaxEpoch == 1
\* The width of one octet of an IPv4 address in the numeric conversions
\* (8 in the program; the address is four octets wide).
OctetBits == 6
\* The number of append calls made on the builders of one table.
MaxAppends == 2

\* ----------------------------------------------------------------- options
None == [some |-> FALSE]
Some(x) == [some |-> TRUE, v |-> x]

RECURSIVE Pow2(_)
Pow2(n) == IF n = 0 THEN 1 ELSE 2 * Pow2(n - 1)

AddrVals == 0 .. (Pow2(AddrBits) - 1)

\* ------------------------------------------------------------- text values
\* A text value: a dotted IPv4 literal, an IPv6 literal, an IPv4-mapped IPv6
\* literal (::ffff:a.b.c.d), or text that is no address ("", "not-an-ip").
V4Text(a) == [k |-> "v4", a |-> a]
V6Text(a) == [k |-> "v6", a |-> a]
MappedText(a) == [k |-> "mapped", a |-> a]
JunkText(j) == [k |-> "junk", a |-> j]

AddrTexts ==
  {V4Text(a) : a \in AddrVals} \cup {V6Text(a) : a \in AddrVals}
    \cup {MappedText(0)} \cup {JunkText(0)}

\* IpAddr::from_str: V4 for a dotted literal, V6 for every IPv6 literal, the
\* IPv4-mapped form included; an error for anything else.
IpAddrFromStr(s) ==
  IF s.k = "v4" THEN [ok |-> TRUE, fam |-> "V4", a |-> s.a]
  ELSE IF s.k = "v6" THEN [ok |-> TRUE, fam |-> "V6", a |-> s.a]
  ELSE IF s.k = "mapped" THEN [ok |-> TRUE, fam |-> "V6", a |-> s.a]
  ELSE [ok |-> FALSE, fam |-> "none", a |-> 0]

\* A CIDR literal: family, network address, prefix length; or junk (a bare
\* address without "/len" is junk for IpNet::from_str).
CidrText(f, a, l) == [k |-> f, a |-> a, len |-> l]
JunkCidr(j) == [k |-> "junk", a |-> j, len |-> 0]

\* The size of the block of addresses a prefix of length l spans.
BlockSize(l) == Pow2(AddrBits - l)

NetAddrs(l) == {a \in AddrVals : a % BlockSize(l) = 0}

CidrTexts ==
  {c \in [k : {"v4", "v6"}, a : AddrVals, len : 0 .. AddrBits] :
     c.a \in NetAddrs(c.len)}
    \cup {JunkCidr(0), JunkCidr(1)}

\* IpNet::from_str.
IpNetFromStr(c) ==
  IF c.k = "v4" THEN [ok |-> TRUE, fam |-> "V4", a |-> c.a, len |-> c.len]
  ELSE IF c.k = "v6" THEN [ok |-> TRUE, fam |-> "V6", a |-> c.a, len |-> c.len]
  ELSE [ok |-> FALSE, fam |-> "none", a |-> 0, len |-> 0]

\* A prefix as the tries store it.
Prefix(a, l) == [a |-> a, len |-> l]

\* A prefix covers an address when they agree on the first len bits.
Covers(p, a) == (a \div BlockSize(p.len)) = (p.a \div BlockSize(p.len))

\* ---------------------------------------------------------- iptrie tries
\* RTrieSet::new / with_capacity: a radix trie always holds its root, the
\* prefix of length 0.
RTrieNew == {Prefix(0, 0)}

\* RTrieSet::insert.
RTrieInsert(trie, p) == trie \cup {p}

\* RTrieSet::compress: the level-compressed trie holds the same prefixes.
Compress(trie) == trie

\* LCTrieSet::lookup: the longest prefix of the trie that covers the address
\* (the root covers every address, so there always is one).
TrieLookup(trie, a) ==
  CHOOSE p \in trie :
    /\ Covers(p, a)
    /\ \A q \in trie : Covers(q, a) => q.len <= p.len

\* IpPrefix::len of the prefix a lookup returns, compared with 0.
IsInTest(trie, a) == TrieLookup(trie, a).len > 0


\* ------------------------------------------------------------ file system
UsrLocal == "/usr/local/share/GeoIP"
Homebrew == "/opt/homebrew/var/GeoIP"
Custom == "/data/mmdb"
Dirs == {UsrLocal, Homebrew, Custom}

SpurFile == "spur.mmdb"
AsnFile == "GeoLite2-ASN.mmdb"
CityFile == "GeoLite2-City.mmdb"
AllFiles == {SpurFile, AsnFile, CityFile}

\* The environment of the process: the two override variables, the
\* directories that exist and the database files that can be opened.
Fs(sv, mv, ex, fl) == [spurvar |-> sv, maxvar |-> mv, exists |-> ex, files |-> fl]

FsEnvAll == Fs(Some(Custom), Some(Custom), {Custom, UsrLocal}, {Custom} \X AllFiles)
FsNothing == Fs(None, None, {}, {})
FsDefaultAll == Fs(None, None, {UsrLocal, Homebrew}, {UsrLocal} \X AllFiles)
FsNoCity == Fs(Some(Custom), Some(Custom), {Custom}, {Custom} \X {SpurFile, AsnFile})

\* The databases only where expressions.rs looks for them.
FsHomebrewAll == Fs(None, None, {Homebrew}, {Homebrew} \X AllFiles)
FsHomebrewNoCity == Fs(None, None, {Homebrew}, {Homebrew} \X {SpurFile, AsnFile})

FsScenarios == {FsEnvAll, FsNothing, FsDefaultAll, FsNoCity}

\* A search that tries the default paths before the override variable.
get_mmdb_dirDefaultsFirst(var, fs) ==
  IF UsrLocal \in fs.exists THEN [ok |-> TRUE, dir |-> UsrLocal]
  ELSE IF Homebrew \in fs.exists THEN [ok |-> TRUE, dir |-> Homebrew]
  ELSE IF var.some THEN [ok |-> TRUE, dir |-> var.v]
  ELSE [ok |-> FALSE, dir |-> ""]

\* get_mmdb_dir: the override variable first, then the default paths in order.
get_mmdb_dir(var, fs) ==
  IF var.some THEN [ok |-> TRUE, dir |-> var.v]
  ELSE IF UsrLocal \in fs.exists THEN [ok |-> TRUE, dir |-> UsrLocal]
  ELSE IF Homebrew \in fs.exists THEN [ok |-> TRUE, dir |-> Homebrew]
  ELSE [ok |-> FALSE, dir |-> ""]

\* Reader::open_mmap: an open reader remembers the file and the contents it
\* mapped (the epoch of the environment at the time).
Reader(dir, file, ep) == [dir |-> dir, file |-> file, ver |-> ep]
CanOpen(dir, file, fs) == <<dir, file>> \in fs.files

\* PolarsError::ComputeError raised by initialize.
InitErr(text, dir, file) == [text |-> text, dir |-> dir, file |-> file]
NoErr == InitErr("", "", "")

SpurNoDirMsg ==
  "Error could not locate a directory for Spur MMDB files\nHint: specify a directory with the environment variable SPUR_MMDB_DIR\n"
SpurOpenMsg == "Could not open Spur MMDB file from "
MaxNoDirMsg ==
  "Error could not locate a directory for MaxMind MMDB files\nHint: specify a directory with the environment variable MAXMIND_MMDB_DIR\n"
AsnOpenMsg == "Could not open ASN MMDB file from "
CityOpenMsg == "Could not open City MMDB file from "

\* What the text of an initialization error says: the texts that name the
\* database whose directory or file failed, and the texts that carry the hint
\* about the override environment variable.
NamesDataset(text) == text \in {SpurNoDirMsg, SpurOpenMsg, MaxNoDirMsg, AsnOpenMsg, CityOpenMsg}
NamesOverride(text) == text \in {SpurNoDirMsg, MaxNoDirMsg}

\* A cache entry: Option<Result<DB, PolarsError>>.
EntryNone == [st |-> "none", readers |-> <<>>, err |-> NoErr]
EntryOk(readers) == [st |-> "ok", readers |-> readers, err |-> NoErr]
EntryErr(e) == [st |-> "err", readers |-> <<>>, err |-> e]

\* SpurDB::initialize, as the entry reload and get_or_init store.
SpurInitialize(fs, ep) ==
  LET d == get_mmdb_dir(fs.spurvar, fs)
  IN IF ~d.ok THEN EntryErr(InitErr(SpurNoDirMsg, "", ""))
     ELSE IF ~CanOpen(d.dir, SpurFile, fs)
     THEN EntryErr(InitErr(SpurOpenMsg, d.dir, SpurFile))
     ELSE EntryOk(<<Reader(d.dir, SpurFile, ep)>>)

\* An initialization that keeps the ASN reader when the City file fails.
MaxInitializeKeepsAsn(fs, ep) ==
  LET d == get_mmdb_dir(fs.maxvar, fs)
  IN IF ~d.ok THEN EntryErr(InitErr(MaxNoDirMsg, "", ""))
     ELSE IF ~CanOpen(d.dir, AsnFile, fs)
     THEN EntryErr(InitErr(AsnOpenMsg, d.dir, AsnFile))
     ELSE IF ~CanOpen(d.dir, CityFile, fs)
     THEN EntryOk(<<Reader(d.dir, AsnFile, ep)>>)
     ELSE EntryOk(<<Reader(d.dir, AsnFile, ep), Reader(d.dir, CityFile, ep)>>)

\* MaxMindDB::initialize: the ASN reader, then the City reader.
MaxInitialize(fs, ep) ==
  LET d == get_mmdb_dir(fs.maxvar, fs)
  IN IF ~d.ok THEN EntryErr(InitErr(MaxNoDirMsg, "", ""))
     ELSE IF ~CanOpen(d.dir, AsnFile, fs)
     THEN EntryErr(InitErr(AsnOpenMsg, d.dir, AsnFile))
     ELSE IF ~CanOpen(d.dir, CityFile, fs)
     THEN EntryErr(InitErr(CityOpenMsg, d.dir, CityFile))
     ELSE EntryOk(<<Reader(d.dir, AsnFile, ep), Reader(d.dir, CityFile, ep)>>)

\* ----------------------------------------------------------- entry points
Spur == "pl_full_spur"
Geoip == "pl_full_geoip"
Asn == "pl_get_asn"
EntryPoints == {Spur, Geoip, Asn}

\* The cache an entry point uses: SPUR_DB or MAXMIND_DB.
SpurDb == "SPUR_DB"
MaxDb == "MAXMIND_DB"
Caches == {SpurDb, MaxDb}
CacheOf(e) == IF e = Spur THEN SpurDb ELSE MaxDb

Initialize(c, fs, ep) == IF c = SpurDb THEN SpurInitialize(fs, ep) ELSE MaxInitialize(fs, ep)

T1 == "t1"
T2 == "t2"
Threads == {T1, T2}
NoThread == "none"

\* --------------------------------------------------------------- pl_is_in
VARIABLES
  ipc,        \* pl_is_in: "idle", "build", "query", "done"
  ca2,        \* the range column (optional CIDR texts)
  ci,         \* number of range entries consumed
  v4trie,     \* ipv4_rtrie, then ipv4_lctrie
  v6trie,     \* ipv6_rtrie, then ipv6_lctrie
  ca1,        \* the query rows consumed so far (optional address texts)
  builder,    \* the BooleanChunkedBuilder: one optional boolean per row
  ires        \* the call's result: none, an error, or the output column

isinVars == <<ipc, ca2, ci, v4trie, v6trie, ca1, builder, ires>>

VARIABLES
  fsys,       \* the environment: override variables, directories, files
  epoch,      \* how many times the environment has changed
  db,         \* db[c]: the entry of cache c
  lock,       \* lock[c]: the thread that holds the mutex of cache c
  pc,         \* pc[t]: "idle", "reload", "get", "rows", "done"
  entry,      \* entry[t]: the entry point thread t is running
  reload,     \* reload[t]: kwargs.reload_mmdb of the call
  mdb,        \* mdb[t]: the readers the call's row loop borrows
  ca,         \* ca[t]: the input rows consumed so far
  raw,        \* raw[t]: what the database lookups of each row returned
  snaps,      \* snaps[t]: the readers each row was looked up in
  bld,        \* bld[t]: the output builders
  res,        \* res[t]: the call's result
  made,       \* made[t]: the outcomes of the initialize() calls of the call so far
  since       \* since[t]: while the call waits between its reload and its
              \* get_or_init, the outcomes of the initialize() calls made on
              \* its cache from its own reload on

VARIABLES
  ASN_READER,   \* the lazy static ASN reader of expressions.rs
  CITY_READER,  \* the lazy static City reader of expressions.rs
  xpc,          \* geoip_lookup_all: "idle", "rows", "done"
  xca,          \* the input rows geoip_lookup_all has consumed
  xbld,         \* its builders
  xres          \* its result: none, the output struct, or a panic

exprVars == <<ASN_READER, CITY_READER, xpc, xca, xbld, xres>>

VARIABLES
  npc,          \* the numeric conversions: "idle", "enc", "encdec", "dec", "decenc"
  nin,          \* the input value: an optional text or an optional integer
  nmid,         \* the output of the first conversion
  nout          \* the output of the second conversion applied to nmid

numVars == <<npc, nin, nmid, nout>>

VARIABLES
  btable,       \* the field table given to create_builders
  bws,          \* the builders create_builders returned
  blast         \* the last call on a builder: which, and with what value

bwVars == <<btable, bws, blast>>

cacheVars == <<fsys, epoch, db, lock>>
callVars == <<pc, entry, reload, mdb, ca, raw, snaps, bld, res, made, since>>
vars == <<fsys, epoch, db, lock, pc, entry, reload, mdb, ca, raw, snaps, bld, res,
          made, since, ipc, ca2, ci, v4trie, v6trie, ca1, builder, ires,
          ASN_READER, CITY_READER, xpc, xca, xbld, xres, npc, nin, nmid, nout,
          btable, bws, blast>>

NoResult == [tag |-> "none", col |-> <<>>, msg |-> "", lit |-> JunkCidr(0)]
OkColumn(col) == [tag |-> "ok", col |-> col, msg |-> "", lit |-> JunkCidr(0)]
\* An error that does not carry the literal.
CidrErrorUnnamed(c) ==
  [tag |-> "err", col |-> <<>>, msg |-> "Invalid CIDR range: ", lit |-> JunkCidr(0)]

\* PolarsError::ComputeError(format!("Invalid CIDR range: {}", cidr))
CidrError(c) == [tag |-> "err", col |-> <<>>, msg |-> "Invalid CIDR range: ", lit |-> c]

RECURSIVE SeqsUpTo(_, _)
SeqsUpTo(S, n) ==
  IF n = 0 THEN {<<>>}
  ELSE LET shorter == SeqsUpTo(S, n - 1)
       IN shorter \cup {Append(s, x) : s \in {q \in shorter : Len(q) = n - 1}, x \in S}

RangeColumns == SeqsUpTo({None} \cup {Some(c) : c \in CidrTexts}, MaxRanges)

IsInInit ==
  /\ ipc = "idle"
  /\ ca2 = <<>>
  /\ ci = 0
  /\ v4trie = RTrieNew
  /\ v6trie = RTrieNew
  /\ ca1 = <<>>
  /\ builder = <<>>
  /\ ires = NoResult

\* pl_is_in is called with a range column; the tries are created.
IsInCall ==
  /\ ipc = "idle"
  /\ \A t \in Threads : pc[t] = "idle"
  /\ UNCHANGED <<cacheVars, callVars, exprVars, numVars, bwVars>>
  /\ \E col \in RangeColumns : ca2' = col
  /\ ipc' = "build"
  /\ ci' = 0
  /\ v4trie' = RTrieNew
  /\ v6trie' = RTrieNew
  /\ ca1' = <<>>
  /\ builder' = <<>>
  /\ ires' = NoResult

\* A build loop that treats a null entry as a malformed literal.
IsInBuildStepRejectsNull ==
  /\ ipc = "build"
  /\ UNCHANGED <<cacheVars, callVars, exprVars, numVars, bwVars>>
  /\ ci < Len(ca2)
  /\ ci' = ci + 1
  /\ LET e == ca2[ci + 1]
         n == IpNetFromStr(e.v)
     IN IF ~e.some
        THEN /\ ires' = CidrError(JunkCidr(0))
             /\ ipc' = "done"
             /\ UNCHANGED <<v4trie, v6trie>>
        ELSE IF n.ok /\ n.fam = "V4"
        THEN /\ v4trie' = RTrieInsert(v4trie, Prefix(n.a, n.len))
             /\ UNCHANGED <<ipc, v6trie, ires>>
        ELSE IF n.ok /\ n.fam = "V6"
        THEN /\ v6trie' = RTrieInsert(v6trie, Prefix(n.a, n.len))
             /\ UNCHANGED <<ipc, v4trie, ires>>
        ELSE /\ ires' = CidrError(e.v)
             /\ ipc' = "done"
             /\ UNCHANGED <<v4trie, v6trie>>
  /\ UNCHANGED <<ca2, ca1, builder>>

\* One iteration of the loop over ca2.into_iter().flatten(): a null entry is
\* skipped, a range goes to the trie of its family, a malformed literal ends
\* the call with an error.
IsInBuildStep ==
  /\ ipc = "build"
  /\ UNCHANGED <<cacheVars, callVars, exprVars, numVars, bwVars>>
  /\ ci < Len(ca2)
  /\ ci' = ci + 1
  /\ LET e == ca2[ci + 1]
         n == IpNetFromStr(e.v)
     IN IF ~e.some
        THEN UNCHANGED <<ipc, v4trie, v6trie, ires>>
        ELSE IF n.ok /\ n.fam = "V4"
        THEN /\ v4trie' = RTrieInsert(v4trie, Prefix(n.a, n.len))
             /\ UNCHANGED <<ipc, v6trie, ires>>
        ELSE IF n.ok /\ n.fam = "V6"
        THEN /\ v6trie' = RTrieInsert(v6trie, Prefix(n.a, n.len))
             /\ UNCHANGED <<ipc, v4trie, ires>>
        ELSE /\ ires' = CidrError(e.v)
             /\ ipc' = "done"
             /\ UNCHANGED <<v4trie, v6trie>>
  /\ UNCHANGED <<ca2, ca1, builder>>

\* Both tries are compressed once the range column is exhausted.
IsInCompress ==
  /\ ipc = "build"
  /\ UNCHANGED <<cacheVars, callVars, exprVars, numVars, bwVars>>
  /\ ci = Len(ca2)
  /\ v4trie' = Compress(v4trie)
  /\ v6trie' = Compress(v6trie)
  /\ ipc' = "query"
  /\ UNCHANGED <<ca2, ci, ca1, builder, ires>>

\* A row test that asks both tries whatever the family of the address.
IsInRowAnyTrie(row, t4, t6) ==
  IF ~row.some THEN None
  ELSE LET ip == IpAddrFromStr(row.v)
       IN IF ~ip.ok THEN None
          ELSE Some(IsInTest(t4, ip.a) \/ IsInTest(t6, ip.a))

\* The value appended for one query row.
IsInRow(row, t4, t6) ==
  IF ~row.some THEN None
  ELSE LET ip == IpAddrFromStr(row.v)
       IN IF ~ip.ok THEN None
          ELSE IF ip.fam = "V4" THEN Some(IsInTest(t4, ip.a))
          ELSE Some(IsInTest(t6, ip.a))

\* One iteration of the loop over ca1.
IsInQueryStep ==
  /\ ipc = "query"
  /\ UNCHANGED <<cacheVars, callVars, exprVars, numVars, bwVars>>
  /\ Len(ca1) < MaxQueryRows
  /\ \E row \in {None} \cup {Some(s) : s \in AddrTexts} :
       /\ ca1' = Append(ca1, row)
       /\ builder' = Append(builder, IsInRow(row, v4trie, v6trie))
  /\ UNCHANGED <<ipc, ca2, ci, v4trie, v6trie, ires>>

\* The query column is exhausted: Ok(builder.finish().into_series()).
IsInFinish ==
  /\ ipc = "query"
  /\ UNCHANGED <<cacheVars, callVars, exprVars, numVars, bwVars>>
  /\ ires' = OkColumn(builder)
  /\ ipc' = "done"
  /\ UNCHANGED <<ca2, ci, v4trie, v6trie, ca1, builder>>



\* ------------------------------------------------------- database records
UnwrapOr(o, d) == IF o.some THEN o.v ELSE d

\* names.get("en") on a map of localized names.
MapGet(m, key) == IF key \in DOMAIN m THEN Some(m[key]) ELSE None

\* What spur_reader.lookup::<SpurLookupResult>(ip) returns: no record, or a
\* record whose fields are all optional.
SpurRec(cc, inf, city, country, state, svc, tag) ==
  [found |-> TRUE, clientCount |-> cc, infrastructure |-> inf, locationCity |-> city,
   locationCountry |-> country, locationState |-> state, services |-> svc, tag |-> tag]
SpurMiss ==
  [found |-> FALSE, clientCount |-> None, infrastructure |-> None, locationCity |-> None,
   locationCountry |-> None, locationState |-> None, services |-> None, tag |-> None]
SpurFull ==
  SpurRec(Some(3), Some("DATACENTER"), Some("Paris"), Some("FR"), Some("IDF"),
          Some(<<"OPENVPN", "IPSEC">>), Some("VPN"))
SpurNoServices ==
  SpurRec(Some(3), Some("DATACENTER"), Some("Paris"), Some("FR"), Some("IDF"), None,
          Some("VPN"))
SpurEmptyServices ==
  SpurRec(Some(1), None, None, Some("FR"), None, Some(<<>>), None)
SpurBare == SpurRec(None, None, None, None, None, None, None)
SpurLookups == {SpurMiss, SpurFull, SpurNoServices, SpurEmptyServices, SpurBare}

\* What asn_reader.lookup::<geoip2::Asn>(ip) returns.
AsnRec(num, org) == [found |-> TRUE, number |-> num, org |-> org]
AsnMiss == [found |-> FALSE, number |-> None, org |-> None]
AsnLookups ==
  {AsnMiss, AsnRec(Some(15169), Some("GOOGLE")), AsnRec(Some(64512), None),
   AsnRec(None, Some(""))}

\* What city_reader.lookup::<geoip2::City>(ip) returns: every sub-record and
\* every field of a sub-record is optional.
CityRec(continent, country, subdivisions, city, location, postal) ==
  [found |-> TRUE, continent |-> continent, country |-> country,
   subdivisions |-> subdivisions, city |-> city, location |-> location,
   postal |-> postal]
CityMiss ==
  [found |-> FALSE, continent |-> None, country |-> None, subdivisions |-> None,
   city |-> None, location |-> None, postal |-> None]
CityFull ==
  CityRec(Some([code |-> Some("EU"), names |-> Some([en |-> "Europe", de |-> "Europa"])]),
          Some([iso_code |-> Some("FR"), names |-> Some([en |-> "France", de |-> "Frankreich"])]),
          Some(<<[iso_code |-> Some("IDF"), names |-> Some([en |-> "Ile-de-France"])],
                 [iso_code |-> Some("75"), names |-> Some([en |-> "Paris"])]>>),
          Some([names |-> Some([en |-> "Paris"])]),
          Some([latitude |-> Some(48), longitude |-> Some(2), time_zone |-> Some("Europe/Paris")]),
          Some([code |-> Some("75001")]))
CityNoEn ==
  CityRec(Some([code |-> None, names |-> Some([de |-> "Europa"])]),
          Some([iso_code |-> None, names |-> Some([de |-> "Frankreich"])]),
          Some(<<[iso_code |-> None, names |-> Some([de |-> "Pariser Becken"])]>>),
          Some([names |-> Some([de |-> "Paris"])]),
          Some([latitude |-> None, longitude |-> None, time_zone |-> None]),
          Some([code |-> None]))
CitySparse ==
  CityRec(Some([code |-> Some("EU"), names |-> None]),
          Some([iso_code |-> Some("FR"), names |-> None]),
          Some(<<>>),
          Some([names |-> None]),
          None,
          None)
CityLookups == {CityMiss, CityFull, CityNoEn, CitySparse}

\* The lookups of one row; a row that is null or fails parsing looks nothing up.
Raw(s, a, c) == [spur |-> s, asn |-> a, city |-> c]
NoLookup == Raw(SpurMiss, AsnMiss, CityMiss)

\* --------------------------------------------------------------- SpurDB
\* A default record whose list field is an empty list instead of absent.
SpurResultDefaultEmptyList ==
  [client_count |-> 0, infrastructure |-> "", location_city |-> "",
   location_country |-> "", location_state |-> "", services |-> Some(<<>>), tag |-> ""]

\* impl Default for SpurResult.
SpurResultDefault ==
  [client_count |-> 0, infrastructure |-> "", location_city |-> "",
   location_country |-> "", location_state |-> "", services |-> None, tag |-> ""]

\* SpurDB::iplookup.
SpurIplookup(record) ==
  IF record.found
  THEN [client_count |-> UnwrapOr(record.clientCount, 0),
        infrastructure |-> UnwrapOr(record.infrastructure, ""),
        location_city |-> UnwrapOr(record.locationCity, ""),
        location_country |-> UnwrapOr(record.locationCountry, ""),
        location_state |-> UnwrapOr(record.locationState, ""),
        services |-> Some(UnwrapOr(record.services, <<>>)),
        tag |-> UnwrapOr(record.tag, "")]
  ELSE SpurResultDefault

\* SPUR_FIELDS: the scalar fields of the Spur record and their types.
SPUR_FIELDS ==
  << <<"client_count", "Float32">>, <<"infrastructure", "String">>,
     <<"location_city", "String">>, <<"location_country", "String">>,
     <<"location_state", "String">>, <<"tag", "String">> >>

\* ------------------------------------------------------- BuilderWrapper
BuilderKinds == {"UInt32", "Float32", "Float64", "String"}

\* A builder: the name and variant create_builders gave it, and its entries.
NewBuilder(name, kind) == [name |-> name, kind |-> kind, vals |-> <<>>]

\* create_builders: one builder per field, Invalid for an unsupported type.
create_builders(fields) ==
  [i \in 1 .. Len(fields) |->
     IF fields[i][2] \in BuilderKinds
     THEN NewBuilder(fields[i][1], fields[i][2])
     ELSE NewBuilder(fields[i][1] \o "_error", "Invalid")]

\* value.into(): the AnyValue of a Rust value.
AnyValue(ty, x) == [ty |-> ty, val |-> x]

\* An append_value that stores the value whatever its type.
append_valueStoresAny(b, av) == [b EXCEPT !.vals = Append(@, Some(av.val))]

\* BuilderWrapper::append_value: the value when its type is the variant's.
append_value(b, av) ==
  IF b.kind # "Invalid" /\ b.kind = av.ty
  THEN [b EXCEPT !.vals = Append(@, Some(av.val))]
  ELSE [b EXCEPT !.vals = Append(@, None)]

\* append_null storing a default (Some(0)) where it must store null.
append_nullStoresDefault(b) == [b EXCEPT !.vals = Append(@, Some(0))]

\* BuilderWrapper::append_null.
append_null(b) == [b EXCEPT !.vals = Append(@, None)]


\* A field table with every supported type and two unsupported ones.
MixedFields ==
  << <<"n", "UInt32">>, <<"f", "Float32">>, <<"d", "Float64">>, <<"s", "String">>,
     <<"l", "List(String)">>, <<"b", "Boolean">> >>
FieldTables == {<<>>, SPUR_FIELDS, MixedFields}

\* The types of the values handed to append_value.
AnyValueTypes == BuilderKinds \cup {"List(String)", "Boolean"}

NoCall == [op |-> "none", i |-> 0, av |-> AnyValue("", 0)]

BuilderInit ==
  /\ btable = <<>>
  /\ bws = <<>>
  /\ blast = NoCall

\* create_builders on a field table.
CreateBuilders ==
  /\ blast.op = "none"
  /\ bws = <<>>
  /\ \E fields \in FieldTables \ {<<>>} :
       /\ btable' = fields
       /\ bws' = create_builders(fields)
  /\ blast' = [NoCall EXCEPT !.op = "create"]
  /\ UNCHANGED <<cacheVars, callVars, isinVars, exprVars, numVars>>

\* The number of entries in all builders.
RECURSIVE Appended(_)
Appended(bs) ==
  IF bs = <<>> THEN 0 ELSE Len(bs[Len(bs)].vals) + Appended(SubSeq(bs, 1, Len(bs) - 1))

\* builders[i].append_value(value) with a value of any type.
AppendValue ==
  /\ bws # <<>>
  /\ Appended(bws) < MaxAppends
  /\ \E i \in 1 .. Len(bws), ty \in AnyValueTypes, x \in {0, 1} :
       /\ bws' = [bws EXCEPT ![i] = append_value(@, AnyValue(ty, x))]
       /\ blast' = [op |-> "value", i |-> i, av |-> AnyValue(ty, x)]
  /\ UNCHANGED <<btable, cacheVars, callVars, isinVars, exprVars, numVars>>

\* builders[i].append_null().
AppendNull ==
  /\ bws # <<>>
  /\ Appended(bws) < MaxAppends
  /\ \E i \in 1 .. Len(bws) :
       /\ bws' = [bws EXCEPT ![i] = append_null(@)]
       /\ blast' = [op |-> "null", i |-> i, av |-> AnyValue("", 0)]
  /\ UNCHANGED <<btable, cacheVars, callVars, isinVars, exprVars, numVars>>

\* ----------------------------------------------------------- pl_full_spur
\* The builders of pl_full_spur: create_builders(&SPUR_FIELDS) and the
\* separate ListStringChunkedBuilder "services".
SpurBuilders == [builders |-> create_builders(SPUR_FIELDS), services |-> <<>>]

\* A row loop that leaves the services builder alone on a null or invalid row.
SpurRowSkipsServices(b, row, record) ==
  IF row.some /\ IpAddrFromStr(row.v).ok
  THEN LET spuripresult == SpurIplookup(record)
       IN [builders |->
             [i \in 1 .. 6 |->
                IF i = 1 THEN append_value(b.builders[1], AnyValue("Float32", spuripresult.client_count))
                ELSE IF i = 2 THEN append_value(b.builders[2], AnyValue("String", spuripresult.infrastructure))
                ELSE IF i = 3 THEN append_value(b.builders[3], AnyValue("String", spuripresult.location_city))
                ELSE IF i = 4 THEN append_value(b.builders[4], AnyValue("String", spuripresult.location_country))
                ELSE IF i = 5 THEN append_value(b.builders[5], AnyValue("String", spuripresult.location_state))
                ELSE append_value(b.builders[6], AnyValue("String", spuripresult.tag))],
           services |->
             IF spuripresult.services.some
             THEN Append(b.services, Some(spuripresult.services.v))
             ELSE Append(b.services, None)]
  ELSE [builders |-> [i \in 1 .. Len(b.builders) |-> append_null(b.builders[i])],
        services |-> b.services]

\* One iteration of the row loop of pl_full_spur.
SpurRow(b, row, record) ==
  IF row.some /\ IpAddrFromStr(row.v).ok
  THEN LET spuripresult == SpurIplookup(record)
       IN [builders |->
             [i \in 1 .. 6 |->
                IF i = 1 THEN append_value(b.builders[1], AnyValue("Float32", spuripresult.client_count))
                ELSE IF i = 2 THEN append_value(b.builders[2], AnyValue("String", spuripresult.infrastructure))
                ELSE IF i = 3 THEN append_value(b.builders[3], AnyValue("String", spuripresult.location_city))
                ELSE IF i = 4 THEN append_value(b.builders[4], AnyValue("String", spuripresult.location_country))
                ELSE IF i = 5 THEN append_value(b.builders[5], AnyValue("String", spuripresult.location_state))
                ELSE append_value(b.builders[6], AnyValue("String", spuripresult.tag))],
           services |->
             IF spuripresult.services.some
             THEN Append(b.services, Some(spuripresult.services.v))
             ELSE Append(b.services, None)]
  ELSE [builders |-> [i \in 1 .. Len(b.builders) |-> append_null(b.builders[i])],
        services |-> Append(b.services, None)]

\* A finished builder: a named series.
Series(name, vals) == [name |-> name, vals |-> vals]

\* The series of the struct pl_full_spur returns.
SpurFinish(b) ==
  [i \in 1 .. Len(b.builders) |-> Series(b.builders[i].name, b.builders[i].vals)]
    \o <<Series("services", b.services)>>

\* ---------------------------------------------------------- pl_full_geoip
GeoipBuilders ==
  [asnnum |-> <<>>, asnorg |-> <<>>, city |-> <<>>, continent |-> <<>>,
   subdivision_iso |-> <<>>, subdivision |-> <<>>, country_iso |-> <<>>,
   country |-> <<>>, latitude |-> <<>>, longitude |-> <<>>, timezone |-> <<>>]

\* The values pl_full_geoip extracts for a parsed address.
GeoipProject(asnrecord, cityrecord) ==
  LET c == cityrecord
      first == IF c.found /\ c.subdivisions.some /\ Len(c.subdivisions.v) > 0
               THEN Some(c.subdivisions.v[1]) ELSE None
      citynames == IF c.found /\ c.city.some THEN c.city.v.names ELSE None
  IN [asnnum |-> IF asnrecord.found THEN UnwrapOr(asnrecord.number, 0) ELSE 0,
      asnorg |-> IF asnrecord.found THEN UnwrapOr(asnrecord.org, "") ELSE "",
      continent |->
        IF c.found /\ c.continent.some THEN UnwrapOr(c.continent.v.code, "") ELSE "",
      country_iso |->
        IF c.found /\ c.country.some THEN UnwrapOr(c.country.v.iso_code, "") ELSE "",
      country |->
        IF c.found /\ c.country.some /\ c.country.v.names.some
        THEN UnwrapOr(MapGet(c.country.v.names.v, "en"), "") ELSE "",
      subdivision_iso |-> IF first.some THEN UnwrapOr(first.v.iso_code, "") ELSE "",
      subdivision |->
        IF first.some /\ first.v.names.some
        THEN UnwrapOr(MapGet(first.v.names.v, "en"), "") ELSE "",
      city |-> IF citynames.some THEN UnwrapOr(MapGet(citynames.v, "en"), "") ELSE "",
      timezone |->
        IF c.found /\ c.location.some THEN UnwrapOr(c.location.v.time_zone, "") ELSE "",
      latitude |->
        IF c.found /\ c.location.some THEN UnwrapOr(c.location.v.latitude, 0) ELSE 0,
      longitude |->
        IF c.found /\ c.location.some THEN UnwrapOr(c.location.v.longitude, 0) ELSE 0]

\* One iteration of the row loop of pl_full_geoip.
GeoipRow(b, row, asnrecord, cityrecord) ==
  IF row.some /\ IpAddrFromStr(row.v).ok
  THEN LET p == GeoipProject(asnrecord, cityrecord)
       IN [asnnum |-> Append(b.asnnum, Some(p.asnnum)),
           asnorg |-> Append(b.asnorg, Some(p.asnorg)),
           city |-> Append(b.city, Some(p.city)),
           continent |-> Append(b.continent, Some(p.continent)),
           subdivision_iso |-> Append(b.subdivision_iso, Some(p.subdivision_iso)),
           subdivision |-> Append(b.subdivision, Some(p.subdivision)),
           country_iso |-> Append(b.country_iso, Some(p.country_iso)),
           country |-> Append(b.country, Some(p.country)),
           latitude |-> Append(b.latitude, Some(p.latitude)),
           longitude |-> Append(b.longitude, Some(p.longitude)),
           timezone |-> Append(b.timezone, Some(p.timezone))]
  ELSE [asnnum |-> Append(b.asnnum, None),
        asnorg |-> Append(b.asnorg, None),
        city |-> Append(b.city, None),
        continent |-> Append(b.continent, None),
        subdivision_iso |-> Append(b.subdivision_iso, None),
        subdivision |-> Append(b.subdivision, None),
        country_iso |-> Append(b.country_iso, None),
        country |-> Append(b.country, None),
        latitude |-> Append(b.latitude, None),
        longitude |-> Append(b.longitude, None),
        timezone |-> Append(b.timezone, None)]

\* The series of the struct pl_full_geoip returns.
GeoipFinish(b) ==
  <<Series("asnnum", b.asnnum), Series("asnorg", b.asnorg), Series("city", b.city),
    Series("continent", b.continent), Series("subdivision_iso", b.subdivision_iso),
    Series("subdivision", b.subdivision), Series("country_iso", b.country_iso),
    Series("country", b.country), Series("latitude", b.latitude),
    Series("longitude", b.longitude), Series("timezone", b.timezone)>>

\* ----------------------------------------------------------- output shapes
\* spur_full_output: the struct fields declared ahead of execution, one per
\* entry of SPUR_FIELDS.
spur_full_output == [i \in 1 .. Len(SPUR_FIELDS) |-> <<SPUR_FIELDS[i][1], SPUR_FIELDS[i][2]>>]

\* The fields of the struct pl_full_spur assembles: the finished builders and
\* the series of the ListStringChunkedBuilder pushed after them.
SpurSeriesFields(b) ==
  [i \in 1 .. Len(b.builders) |-> <<b.builders[i].name, b.builders[i].kind>>]
    \o << <<"services", "List(String)">> >>

\* geoip_full_output: the struct fields declared ahead of execution.
geoip_full_output ==
  << <<"asnnum", "UInt32">>, <<"asnorg", "String">>, <<"city", "String">>,
     <<"continent", "String">>, <<"subdivision_iso", "String">>,
     <<"subdivision", "String">>, <<"country_iso", "String">>, <<"country", "String">>,
     <<"latitude", "Float64">>, <<"longitude", "Float64">>, <<"timezone", "String">> >>

\* The type of each builder pl_full_geoip creates.
GeoipBuilderTypes ==
  [asnnum |-> "UInt32", asnorg |-> "String", city |-> "String", continent |-> "String",
   subdivision_iso |-> "String", subdivision |-> "String", country_iso |-> "String",
   country |-> "String", latitude |-> "Float64", longitude |-> "Float64",
   timezone |-> "String"]

\* The fields of the struct pl_full_geoip assembles, in the order of
\* StructChunked::new.
GeoipSeriesFields(b) ==
  [i \in 1 .. Len(GeoipFinish(b)) |->
     <<GeoipFinish(b)[i].name, GeoipBuilderTypes[GeoipFinish(b)[i].name]>>]

\* ------------------------------------------------------------- pl_get_asn
\* A closure that writes "AS<number>_<organization>" for every parsed address.
AsnBufferUnderscore(value, asnrecord) ==
  IF IpAddrFromStr(value).ok
  THEN "AS" \o ToString(IF asnrecord.found THEN UnwrapOr(asnrecord.number, 0) ELSE 0)
         \o "_" \o (IF asnrecord.found THEN UnwrapOr(asnrecord.org, "") ELSE "")
  ELSE ""

\* The closure of pl_get_asn: what it writes to the output buffer.
AsnBuffer(value, asnrecord) ==
  IF IpAddrFromStr(value).ok /\ asnrecord.found
  THEN LET asnnum == UnwrapOr(asnrecord.number, 0)
           asnorg == UnwrapOr(asnrecord.org, "")
       IN IF asnorg = "" THEN "AS" \o ToString(asnnum)
          ELSE "AS" \o ToString(asnnum) \o " " \o asnorg
  ELSE ""

\* StringChunked::apply_to_buffer: the closure runs on the non-null values
\* and its buffer becomes the output value; a null stays null.
AsnRow(b, row, asnrecord) ==
  IF row.some THEN Append(b, Some(AsnBuffer(row.v, asnrecord)))
  ELSE Append(b, None)

AsnFinish(b) == <<Series("", b)>>

\* ------------------------------------------------- MaxMindDB (maxmind.rs)
\* MaxMindDB::iplookup of src/maxmind.rs.
MaxmindIplookup(asn, city_result) ==
  LET c == city_result
      enOf(sub) == IF sub.some /\ sub.v.names.some THEN MapGet(sub.v.names.v, "en") ELSE None
      first == IF c.subdivisions.some /\ Len(c.subdivisions.v) > 0
               THEN Some(c.subdivisions.v[1]) ELSE None
  IN [asnnum |-> IF asn.found THEN UnwrapOr(asn.number, 0) ELSE 0,
      asnorg |-> IF asn.found THEN UnwrapOr(asn.org, "") ELSE "",
      city |-> IF c.found THEN UnwrapOr(enOf(c.city), "") ELSE "",
      continent |-> IF c.found THEN UnwrapOr(enOf(c.continent), "") ELSE "",
      country |-> IF c.found THEN UnwrapOr(enOf(c.country), "") ELSE "",
      country_iso |->
        IF c.found /\ c.country.some THEN UnwrapOr(c.country.v.iso_code, "") ELSE "",
      latitude |->
        IF c.found /\ c.location.some THEN UnwrapOr(c.location.v.latitude, 0) ELSE 0,
      longitude |->
        IF c.found /\ c.location.some THEN UnwrapOr(c.location.v.longitude, 0) ELSE 0,
      postalcode |->
        IF c.found /\ c.postal.some THEN UnwrapOr(c.postal.v.code, "") ELSE "",
      subdivision |-> IF c.found THEN UnwrapOr(enOf(first), "") ELSE "",
      subdivision_iso |->
        IF c.found /\ first.some THEN UnwrapOr(first.v.iso_code, "") ELSE "",
      timezone |->
        IF c.found /\ c.location.some THEN UnwrapOr(c.location.v.time_zone, "") ELSE ""]


\* ------------------------------------------------------- enrichment calls
NoRes == [tag |-> "none", series |-> <<>>, text |-> "", cause |-> NoErr]
OkRes(series) == [tag |-> "ok", series |-> series, text |-> "", cause |-> NoErr]
ErrRes(text, cause) == [tag |-> "err", series |-> <<>>, text |-> text, cause |-> cause]

\* The error of a call whose cache entry holds a failed initialization.
FailedRes(e, cause) ==
  IF e = Spur THEN ErrRes("Failed to initialize SpurDB: ", cause)
  ELSE IF e = Geoip THEN ErrRes("Failed to initialize MaxMindDB: ", cause)
  ELSE ErrRes("Failed to initialize MaxMindDB in map_err closure", NoErr)

\* The error of a call whose cache entry is None.
UninitRes(e) ==
  IF e = Spur
  THEN ErrRes("Error: SpurDB is not initialized. Please ensure that the MMDB files are correctly placed and accessible.", NoErr)
  ELSE IF e = Geoip
  THEN ErrRes("Error: MaxMindDB is not initialized. Please ensure that the MMDB files are correctly placed and accessible.", NoErr)
  ELSE ErrRes("MaxMindDB is not initialized", NoErr)

NewBuilders(e) ==
  IF e = Spur THEN SpurBuilders ELSE IF e = Geoip THEN GeoipBuilders ELSE <<>>

RowOf(e, b, row, r) ==
  IF e = Spur THEN SpurRow(b, row, r.spur)
  ELSE IF e = Geoip THEN GeoipRow(b, row, r.asn, r.city)
  ELSE AsnRow(b, row, r.asn)

FinishOf(e, b) ==
  IF e = Spur THEN SpurFinish(b) ELSE IF e = Geoip THEN GeoipFinish(b) ELSE AsnFinish(b)

\* The lookups entry point e performs for a parsed address.
LookupsOf(e, S, A, C) ==
  IF e = Spur THEN {Raw(x, AsnMiss, CityMiss) : x \in S}
  ELSE IF e = Geoip THEN {Raw(SpurMiss, x, y) : x \in A, y \in C}
  ELSE {Raw(SpurMiss, x, CityMiss) : x \in A}

CallInit ==
  /\ pc = [t \in Threads |-> "idle"]
  /\ entry = [t \in Threads |-> Spur]
  /\ reload = [t \in Threads |-> FALSE]
  /\ mdb = [t \in Threads |-> <<>>]
  /\ ca = [t \in Threads |-> <<>>]
  /\ raw = [t \in Threads |-> <<>>]
  /\ snaps = [t \in Threads |-> <<>>]
  /\ bld = [t \in Threads |-> <<>>]
  /\ res = [t \in Threads |-> NoRes]
  /\ made = [t \in Threads |-> <<>>]
  /\ since = [t \in Threads |-> {}]

CacheInit ==
  /\ epoch = 0
  /\ db = [c \in Caches |-> EntryNone]
  /\ lock = [c \in Caches |-> NoThread]

\* Bookkeeping of an initialize() call that thread t makes on cache c with
\* outcome o: every other call that has reloaded c and still waits for its
\* get_or_init notes o, and t's own notes become own.
Attempted(t, c, o, own) ==
  [u \in Threads |->
     IF u = t THEN own
     ELSE IF pc[u] = "get" /\ reload[u] /\ CacheOf(entry[u]) = c
          THEN since[u] \cup {o}
          ELSE since[u]]

\* An entry that reloads whatever the flag says.
CallAlwaysReloads(t, e, f) ==
  /\ pc[t] = "idle"
  /\ ipc = "idle"
  /\ pc' = [pc EXCEPT ![t] = "reload"]
  /\ entry' = [entry EXCEPT ![t] = e]
  /\ reload' = [reload EXCEPT ![t] = f]
  /\ mdb' = [mdb EXCEPT ![t] = <<>>]
  /\ ca' = [ca EXCEPT ![t] = <<>>]
  /\ raw' = [raw EXCEPT ![t] = <<>>]
  /\ snaps' = [snaps EXCEPT ![t] = <<>>]
  /\ bld' = [bld EXCEPT ![t] = <<>>]
  /\ res' = [res EXCEPT ![t] = NoRes]
  /\ made' = [made EXCEPT ![t] = <<>>]
  /\ UNCHANGED <<cacheVars, since, isinVars, exprVars, numVars, bwVars>>

\* Thread t enters entry point e with kwargs.reload_mmdb = f.
Call(t, e, f) ==
  /\ pc[t] = "idle"
  /\ ipc = "idle"
  /\ pc' = [pc EXCEPT ![t] = IF f THEN "reload" ELSE "get"]
  /\ entry' = [entry EXCEPT ![t] = e]
  /\ reload' = [reload EXCEPT ![t] = f]
  /\ mdb' = [mdb EXCEPT ![t] = <<>>]
  /\ ca' = [ca EXCEPT ![t] = <<>>]
  /\ raw' = [raw EXCEPT ![t] = <<>>]
  /\ snaps' = [snaps EXCEPT ![t] = <<>>]
  /\ bld' = [bld EXCEPT ![t] = <<>>]
  /\ res' = [res EXCEPT ![t] = NoRes]
  /\ made' = [made EXCEPT ![t] = <<>>]
  /\ UNCHANGED <<cacheVars, since, isinVars, exprVars, numVars, bwVars>>

\* A reload that keeps the open readers when the new initialization fails.
ReloadEntryKeepsOld(c, cur, fs, ep) ==
  IF Initialize(c, fs, ep).st = "err" /\ cur.st = "ok" THEN cur ELSE Initialize(c, fs, ep)

\* A reload that empties an entry that is already loaded.
ReloadEntryDropsLoaded(c, cur, fs, ep) ==
  IF cur.st = "none" THEN Initialize(c, fs, ep) ELSE EntryNone

\* A reload that leaves alone an entry that is already there.
ReloadEntryOnlyWhenEmpty(c, cur, fs, ep) ==
  IF cur.st = "none" THEN Initialize(c, fs, ep) ELSE cur

\* The entry reload leaves in the cache: *db = Some(Self::initialize()).
ReloadEntry(c, cur, fs, ep) == Initialize(c, fs, ep)

\* A reload that replaces the entry without taking the lock.
ReloadIgnoringLock(t) ==
  /\ pc[t] = "reload"
  /\ LET c == CacheOf(entry[t])
     IN /\ db' = [db EXCEPT ![c] = ReloadEntry(c, db[c], fsys, epoch)]
        /\ made' = [made EXCEPT ![t] = Append(@, Initialize(c, fsys, epoch))]
        /\ since' = Attempted(t, c, Initialize(c, fsys, epoch), {Initialize(c, fsys, epoch)})
  /\ pc' = [pc EXCEPT ![t] = "get"]
  /\ UNCHANGED <<fsys, epoch, lock, entry, reload, mdb, ca, raw, snaps, bld, res, isinVars, exprVars, numVars, bwVars>>

\* A reload that returns with the lock still held.
ReloadKeepsLock(t) ==
  /\ pc[t] = "reload"
  /\ LET c == CacheOf(entry[t])
     IN /\ lock[c] = NoThread
        /\ db' = [db EXCEPT ![c] = ReloadEntry(c, db[c], fsys, epoch)]
        /\ made' = [made EXCEPT ![t] = Append(@, Initialize(c, fsys, epoch))]
        /\ since' = Attempted(t, c, Initialize(c, fsys, epoch), {Initialize(c, fsys, epoch)})
        /\ lock' = [lock EXCEPT ![c] = t]
  /\ pc' = [pc EXCEPT ![t] = "get"]
  /\ UNCHANGED <<fsys, epoch, entry, reload, mdb, ca, raw, snaps, bld, res, isinVars, exprVars, numVars, bwVars>>

\* SpurDB::reload / MaxMindDB::reload: take the lock, store the outcome of
\* initialize(), release the lock; the function returns Ok(()) either way.
Reload(t) ==
  /\ pc[t] = "reload"
  /\ LET c == CacheOf(entry[t])
     IN /\ lock[c] = NoThread
        /\ db' = [db EXCEPT ![c] = ReloadEntry(c, db[c], fsys, epoch)]
        /\ made' = [made EXCEPT ![t] = Append(@, Initialize(c, fsys, epoch))]
        /\ since' = Attempted(t, c, Initialize(c, fsys, epoch), {Initialize(c, fsys, epoch)})
  /\ pc' = [pc EXCEPT ![t] = "get"]
  /\ UNCHANGED <<fsys, epoch, lock, entry, reload, mdb, ca, raw, snaps, bld, res, isinVars, exprVars, numVars, bwVars>>

\* A get_or_init that initializes again when the entry holds a failure.
GetOrInitEntryRetries(c, cur, fs, ep) ==
  IF cur.st \in {"none", "err"} THEN Initialize(c, fs, ep) ELSE cur

\* A get_or_init that opens the files on every call.
GetOrInitEntryAlways(c, cur, fs, ep) == Initialize(c, fs, ep)

\* A get_or_init that hands out the entry as it finds it.
GetOrInitEntryNever(c, cur, fs, ep) == cur

\* The entry get_or_init leaves in the cache.
GetOrInitEntry(c, cur, fs, ep) == IF cur.st = "none" THEN Initialize(c, fs, ep) ELSE cur

\* get_or_init and the unwrapping of the entry behind the returned guard
\* ("binding"): a failed or missing entry ends the call with an error and
\* drops the guard; otherwise the call keeps the guard and borrows the readers.
GetOrInit(t) ==
  /\ pc[t] = "get"
  /\ LET c == CacheOf(entry[t])
         e == GetOrInitEntry(c, db[c], fsys, epoch)
     IN /\ lock[c] = NoThread
        /\ db' = [db EXCEPT ![c] = e]
        /\ made' = [made EXCEPT ![t] = IF db[c].st = "none" THEN Append(@, e) ELSE @]
        /\ since' = IF db[c].st = "none" THEN Attempted(t, c, e, {})
                    ELSE [since EXCEPT ![t] = {}]
        /\ IF e.st = "ok"
           THEN /\ lock' = [lock EXCEPT ![c] = t]
                /\ mdb' = [mdb EXCEPT ![t] = e.readers]
                /\ bld' = [bld EXCEPT ![t] = NewBuilders(entry[t])]
                /\ pc' = [pc EXCEPT ![t] = "rows"]
                /\ UNCHANGED res
           ELSE /\ res' = [res EXCEPT ![t] =
                             IF e.st = "none" THEN UninitRes(entry[t])
                             ELSE FailedRes(entry[t], e.err)]
                /\ pc' = [pc EXCEPT ![t] = "done"]
                /\ UNCHANGED <<lock, mdb, bld>>
  /\ UNCHANGED <<fsys, epoch, entry, reload, ca, raw, snaps, isinVars, exprVars, numVars, bwVars>>

\* One iteration of the row loop: the next input row is any of Rows, and the
\* databases answer a parsed address with any record of S, A, C. The lookup
\* goes through the reference borrowed from the guard, so it reads the readers
\* that are in the cache entry at that moment.
Row(t, Rows, S, A, C) ==
  /\ pc[t] = "rows"
  /\ Len(ca[t]) < MaxRows
  /\ \E row \in Rows :
       \E r \in (IF row.some /\ IpAddrFromStr(row.v).ok
                 THEN LookupsOf(entry[t], S, A, C) ELSE {NoLookup}) :
         /\ ca' = [ca EXCEPT ![t] = Append(@, row)]
         /\ raw' = [raw EXCEPT ![t] = Append(@, r)]
         /\ snaps' = [snaps EXCEPT ![t] = Append(@, db[CacheOf(entry[t])].readers)]
         /\ bld' = [bld EXCEPT ![t] = RowOf(entry[t], @, row, r)]
  /\ UNCHANGED <<cacheVars, pc, entry, reload, mdb, res, made, since, isinVars, exprVars, numVars, bwVars>>

\* The input is exhausted: the builders are finished, the struct (or the
\* column) is returned and the guard goes out of scope.
Finish(t) ==
  /\ pc[t] = "rows"
  /\ res' = [res EXCEPT ![t] = OkRes(FinishOf(entry[t], bld[t]))]
  /\ lock' = [lock EXCEPT ![CacheOf(entry[t])] = NoThread]
  /\ pc' = [pc EXCEPT ![t] = "done"]
  /\ UNCHANGED <<fsys, epoch, db, entry, reload, mdb, ca, raw, snaps, bld, made, since, isinVars, exprVars, numVars, bwVars>>

\* The caller has taken the result; the thread is free for the next call.
Return(t) ==
  /\ pc[t] = "done"
  /\ pc' = [pc EXCEPT ![t] = "idle"]
  /\ mdb' = [mdb EXCEPT ![t] = <<>>]
  /\ ca' = [ca EXCEPT ![t] = <<>>]
  /\ raw' = [raw EXCEPT ![t] = <<>>]
  /\ snaps' = [snaps EXCEPT ![t] = <<>>]
  /\ bld' = [bld EXCEPT ![t] = <<>>]
  /\ res' = [res EXCEPT ![t] = NoRes]
  /\ made' = [made EXCEPT ![t] = <<>>]
  /\ UNCHANGED <<cacheVars, entry, reload, since, isinVars, exprVars, numVars, bwVars>>

\* The user changes the override variables, the directories or the files.
EnvChange ==
  /\ epoch < MaxEpoch
  /\ epoch' = epoch + 1
  /\ \E fs \in FsScenarios : fsys' = fs
  /\ UNCHANGED <<db, lock, callVars, isinVars, exprVars, numVars, bwVars>>

\* ----------------------------------------------------- numeric conversions
\* An IPv4 text is the sequence of its dot-separated parts, each part the
\* sequence of its characters: the digits 0 .. 9, and NotADigit for any
\* other character.
NotADigit == 10
OctetMax == Pow2(OctetBits) - 1
OctetBase == OctetMax + 1

\* Display of an integer: its decimal digits without leading zeros.
RECURSIVE ToDigits(_)
ToDigits(n) == IF n < 10 THEN <<n>> ELSE Append(ToDigits(n \div 10), n % 10)

\* The value of a digit sequence.
RECURSIVE DigitsValue(_)
DigitsValue(ds) ==
  IF ds = <<>> THEN 0
  ELSE DigitsValue(SubSeq(ds, 1, Len(ds) - 1)) * 10 + ds[Len(ds)]

\* One octet of Ipv4Addr::from_str: one to MaxDigits decimal digits, no
\* leading zero on a longer part, and a value that fits the octet.
MaxDigits == Len(ToDigits(OctetMax))
ParseOctet(tok) ==
  IF /\ Len(tok) \in 1 .. MaxDigits
     /\ \A i \in 1 .. Len(tok) : tok[i] # NotADigit
     /\ (Len(tok) > 1 => tok[1] # 0)
     /\ DigitsValue(tok) <= OctetMax
  THEN [ok |-> TRUE, v |-> DigitsValue(tok)]
  ELSE [ok |-> FALSE, v |-> 0]

\* value.parse::<Ipv4Addr>(): exactly four parts, each an octet.
Ipv4AddrFromStr(text) ==
  IF Len(text) = 4 /\ \A i \in 1 .. 4 : ParseOctet(text[i]).ok
  THEN [ok |-> TRUE, octets |-> [i \in 1 .. 4 |-> ParseOctet(text[i]).v]]
  ELSE [ok |-> FALSE, octets |-> <<0, 0, 0, 0>>]

\* A conversion that reads the octets in little-endian order.
U32FromLittleEndian(octets) ==
  ((octets[4] * OctetBase + octets[3]) * OctetBase + octets[2]) * OctetBase + octets[1]

\* u32::from(ipv4): the octets in big-endian order.
U32From(octets) ==
  ((octets[1] * OctetBase + octets[2]) * OctetBase + octets[3]) * OctetBase + octets[4]

\* Ipv4Addr::from(num): the big-endian octets of the integer.
Ipv4AddrFrom(num) ==
  <<num \div (OctetBase * OctetBase * OctetBase),
    (num \div (OctetBase * OctetBase)) % OctetBase,
    (num \div OctetBase) % OctetBase,
    num % OctetBase>>

\* ip.to_string(): the four octets in decimal.
Ipv4ToString(octets) == [i \in 1 .. 4 |-> ToDigits(octets[i])]

\* One row of pl_ipv4_to_numeric.
pl_ipv4_to_numeric(opt_value) ==
  IF opt_value.some
  THEN IF Ipv4AddrFromStr(opt_value.v).ok
       THEN Some(U32From(Ipv4AddrFromStr(opt_value.v).octets))
       ELSE None
  ELSE None

\* One row of pl_numeric_to_ipv4.
pl_numeric_to_ipv4(opt_value) ==
  IF opt_value.some THEN Some(Ipv4ToString(Ipv4AddrFrom(opt_value.v))) ELSE None

\* The inputs of the conversions: parts that are octets (0, 1, a two-digit
\* value, the largest octet) and parts that are not (a leading zero, an empty
\* part, a value one above the largest octet, a letter), and the integers of
\* every combination of the sample octets.
SampleOctets == {0, 1, 10, OctetMax}
SampleParts ==
  {ToDigits(v) : v \in SampleOctets} \cup
  {<<0, 1>>, <<>>, ToDigits(OctetMax + 1), <<NotADigit>>}
TextInputs ==
  {None} \cup {Some(t) : t \in [1 .. 4 -> SampleParts]}
    \cup {Some(<<ToDigits(1), ToDigits(1), ToDigits(1)>>)}
NumInputs ==
  {None} \cup {Some(U32From(o)) : o \in [1 .. 4 -> SampleOctets]}

NumInit ==
  /\ npc = "idle"
  /\ nin = None
  /\ nmid = None
  /\ nout = None

\* pl_ipv4_to_numeric on a text.
ToNumericCall ==
  /\ npc = "idle"
  /\ \E v \in TextInputs :
       /\ nin' = v
       /\ nmid' = pl_ipv4_to_numeric(v)
  /\ npc' = "enc"
  /\ UNCHANGED <<nout, cacheVars, callVars, isinVars, exprVars, bwVars>>

\* pl_numeric_to_ipv4 on the output of pl_ipv4_to_numeric.
ToIpv4Back ==
  /\ npc = "enc"
  /\ nout' = pl_numeric_to_ipv4(nmid)
  /\ npc' = "encdec"
  /\ UNCHANGED <<nin, nmid, cacheVars, callVars, isinVars, exprVars, bwVars>>

\* pl_numeric_to_ipv4 on an integer.
ToIpv4Call ==
  /\ npc = "idle"
  /\ \E n \in NumInputs :
       /\ nin' = n
       /\ nmid' = pl_numeric_to_ipv4(n)
  /\ npc' = "dec"
  /\ UNCHANGED <<nout, cacheVars, callVars, isinVars, exprVars, bwVars>>

\* pl_ipv4_to_numeric on the output of pl_numeric_to_ipv4.
ToNumericBack ==
  /\ npc = "dec"
  /\ nout' = pl_ipv4_to_numeric(nmid)
  /\ npc' = "decenc"
  /\ UNCHANGED <<nin, nmid, cacheVars, callVars, isinVars, exprVars, bwVars>>

\* The input rows of the enrichment calls: null, junk, and address texts.
EnrichTexts == {JunkText(0), V4Text(0), MappedText(0)}
EnrichRows == {None} \cup {Some(s) : s \in EnrichTexts}

\* --------------------------------------------------------- expressions.rs
\* The result of a call that panicked.
PanicRes(text) == [tag |-> "panic", series |-> <<>>, text |-> text, cause |-> NoErr]

\* The first dereference of a lazy static reader runs
\* Reader::open_mmap(path).expect(..): the reader is opened, or the
\* initializer panics and leaves the static poisoned; a poisoned static
\* panics on every later dereference.
LazyDeref(reader, file, fs) ==
  IF reader = "lazy"
  THEN IF CanOpen(Homebrew, file, fs) THEN "open" ELSE "poisoned"
  ELSE reader

ExprInit ==
  /\ ASN_READER = "lazy"
  /\ CITY_READER = "lazy"
  /\ xpc = "idle"
  /\ xca = <<>>
  /\ xbld = GeoipBuilders
  /\ xres = NoRes

\* geoip_lookup_all is called: the builders are created.
LookupAllCall ==
  /\ xpc = "idle"
  /\ ipc = "idle"
  /\ \A t \in Threads : pc[t] = "idle"
  /\ xpc' = "rows"
  /\ xca' = <<>>
  /\ xbld' = GeoipBuilders
  /\ xres' = NoRes
  /\ UNCHANGED <<ASN_READER, CITY_READER, cacheVars, callVars, isinVars, numVars, bwVars>>

\* One iteration of the row loop of geoip_lookup_all: a parsed address
\* dereferences ASN_READER and then CITY_READER before anything is appended.
LookupAllRow ==
  /\ xpc = "rows"
  /\ Len(xca) < MaxRows
  /\ \E row \in EnrichRows :
       IF row.some /\ IpAddrFromStr(row.v).ok
       THEN LET asn == LazyDeref(ASN_READER, AsnFile, fsys)
                city == LazyDeref(CITY_READER, CityFile, fsys)
            IN /\ ASN_READER' = asn
               /\ IF asn = "poisoned"
                  THEN /\ xres' = PanicRes("Could not read GeoLite2-ASN.mmdb")
                       /\ xpc' = "done"
                       /\ UNCHANGED <<CITY_READER, xca, xbld>>
                  ELSE /\ CITY_READER' = city
                       /\ IF city = "poisoned"
                          THEN /\ xres' = PanicRes("Could not read GeoLite2-City.mmdb")
                               /\ xpc' = "done"
                               /\ UNCHANGED <<xca, xbld>>
                          ELSE /\ \E a \in AsnLookups, c \in CityLookups :
                                    xbld' = GeoipRow(xbld, row, a, c)
                               /\ xca' = Append(xca, row)
                               /\ UNCHANGED <<xpc, xres>>
       ELSE /\ xbld' = GeoipRow(xbld, row, AsnMiss, CityMiss)
            /\ xca' = Append(xca, row)
            /\ UNCHANGED <<ASN_READER, CITY_READER, xpc, xres>>
  /\ UNCHANGED <<cacheVars, callVars, isinVars, numVars, bwVars>>

\* The input is exhausted: the struct is assembled and returned.
LookupAllFinish ==
  /\ xpc = "rows"
  /\ xres' = OkRes(GeoipFinish(xbld))
  /\ xpc' = "done"
  /\ UNCHANGED <<ASN_READER, CITY_READER, xca, xbld, cacheVars, callVars, isinVars, numVars, bwVars>>

\* -------------------------------------------------------- specifications

\* One process, one call: any entry point, any input column, any database
\* contents, with the database files present or absent.
Init ==
  /\ fsys \in {FsEnvAll, FsNothing}
  /\ CacheInit
  /\ CallInit
  /\ IsInInit
  /\ ExprInit
  /\ NumInit
  /\ BuilderInit

Next ==
  \/ \E e \in EntryPoints, f \in BOOLEAN : Call(T1, e, f)
  \/ Reload(T1)
  \/ GetOrInit(T1)
  \/ Row(T1, EnrichRows, SpurLookups, AsnLookups, CityLookups)
  \/ Finish(T1)
  \/ IsInCall
  \/ IsInBuildStep
  \/ IsInCompress
  \/ IsInQueryStep
  \/ IsInFinish

Spec == Init /\ [][Next]_vars

\* Two threads calling the enrichment entry points again and again while the
\* environment changes; every row is a valid address the databases miss.
CacheNext ==
  \/ \E t \in Threads :
       \/ \E e \in EntryPoints, f \in BOOLEAN : Call(t, e, f)
       \/ Reload(t)
       \/ GetOrInit(t)
       \/ Row(t, {Some(V4Text(0))}, {SpurMiss}, {AsnMiss}, {CityMiss})
       \/ Finish(t)
       \/ Return(t)
  \/ EnvChange

CacheInitial ==
  /\ fsys \in FsScenarios
  /\ CacheInit
  /\ CallInit
  /\ IsInInit
  /\ ExprInit
  /\ NumInit
  /\ BuilderInit

SpecCache == CacheInitial /\ [][CacheNext]_vars

\* Two threads that each make one enrichment call, scheduled fairly: a
\* thread that can take its next step, and stays able to, takes it.
LiveNext ==
  \E t \in Threads :
    \/ \E e \in EntryPoints, f \in BOOLEAN : Call(t, e, f)
    \/ Reload(t)
    \/ GetOrInit(t)
    \/ Row(t, {Some(V4Text(0))}, {SpurMiss}, {AsnMiss}, {CityMiss})
    \/ Finish(t)

Fairness ==
  \A t \in Threads :
    /\ WF_vars(Reload(t))
    /\ WF_vars(GetOrInit(t))
    /\ WF_vars(Finish(t))

SpecLive == CacheInitial /\ [][LiveNext]_vars /\ Fairness

\* One call of geoip_lookup_all of expressions.rs, with the database files
\* present or absent at the path it has compiled in.
ExprNext ==
  \/ LookupAllCall
  \/ LookupAllRow
  \/ LookupAllFinish

ExprInitial ==
  /\ fsys \in {FsHomebrewAll, FsHomebrewNoCity, FsNothing, FsEnvAll}
  /\ CacheInit
  /\ CallInit
  /\ IsInInit
  /\ ExprInit
  /\ NumInit
  /\ BuilderInit

SpecExpr == ExprInitial /\ [][ExprNext]_vars

\* The two numeric conversions, each applied to an input and then undone by
\* the other.
NumNext ==
  \/ ToNumericCall
  \/ ToIpv4Back
  \/ ToIpv4Call
  \/ ToNumericBack

NumInitial ==
  /\ fsys = FsNothing
  /\ CacheInit
  /\ CallInit
  /\ IsInInit
  /\ ExprInit
  /\ NumInit
  /\ BuilderInit

SpecNum == NumInitial /\ [][NumNext]_vars

\* The builders of a field table, appended to with values of any type.
BuilderNext ==
  \/ CreateBuilders
  \/ AppendValue
  \/ AppendNull

SpecBuilder == NumInitial /\ [][BuilderNext]_vars


\* ================================================================ claims
\* The columns a call has produced so far: the builders during the row loop,
\* the returned series afterwards.
Cols(t) == IF pc[t] = "rows" THEN FinishOf(entry[t], bld[t]) ELSE res[t].series

\* Thread t is in its row loop or has returned an output.
Active(t) == pc[t] = "rows" \/ (pc[t] = "done" /\ res[t].tag = "ok")

\* The entry of row i in the column called name.
Val(t, name, i) ==
  LET k == CHOOSE x \in 1 .. Len(Cols(t)) : Cols(t)[x].name = name
  IN Cols(t)[k].vals[i]

\* Row i of the call of thread t is text that parses as an address.
ValidRow(t, i) == ca[t][i].some /\ IpAddrFromStr(ca[t][i].v).ok

\* Row i of the call of thread t is text that does not parse.
InvalidRow(t, i) == ca[t][i].some /\ ~IpAddrFromStr(ca[t][i].v).ok

\* C1: a null input row gives null in every output field of that row, the
\* list field services included, in pl_full_spur, pl_full_geoip and
\* pl_get_asn, and null in the output of pl_is_in.
C1_NullInputNullOutput ==
  /\ \A t \in Threads :
       Active(t) =>
         \A i \in 1 .. Len(ca[t]) :
           ~ca[t][i].some =>
             \A k \in 1 .. Len(Cols(t)) : ~Cols(t)[k].vals[i].some
  /\ \A i \in 1 .. Len(ca1) :
       ~ca1[i].some =>
         /\ ~builder[i].some
         /\ ires.tag = "ok" => ~ires.col[i].some

\* pl_full_spur has returned a struct whose first row came from a null input
\* (null in services too) and whose second row is populated.
C1_Witness ==
  /\ pc[T1] = "done"
  /\ entry[T1] = Spur
  /\ res[T1].tag = "ok"
  /\ Len(ca[T1]) = 2
  /\ ~ca[T1][1].some
  /\ ValidRow(T1, 2)
  /\ res[T1].series[7].name = "services"
  /\ ~res[T1].series[7].vals[1].some
  /\ res[T1].series[1].vals[2].some

\* The output row an entry point produces for a null input.
NullRow(e) == FinishOf(e, RowOf(e, NewBuilders(e), None, NoLookup))

\* C2: text that fails address parsing gives exactly the output row of a
\* null input, in every enrichment entry point and in pl_is_in.
C2_InvalidSameAsNull ==
  /\ \A t \in Threads :
       Active(t) =>
         \A i \in 1 .. Len(ca[t]) :
           InvalidRow(t, i) =>
             \A k \in 1 .. Len(Cols(t)) :
               Cols(t)[k].vals[i].some = NullRow(entry[t])[k].vals[1].some
  /\ \A i \in 1 .. Len(ca1) :
       (ca1[i].some /\ ~IpAddrFromStr(ca1[i].v).ok) => ~builder[i].some

SpurTextFields ==
  {"infrastructure", "location_city", "location_country", "location_state", "tag"}
GeoipCityTextFields ==
  {"city", "continent", "subdivision_iso", "subdivision", "country_iso", "country",
   "timezone"}

\* impl Default for MaxmindIPResult.
MaxmindIPResultDefault ==
  [asnnum |-> 0, asnorg |-> "", city |-> "", continent |-> "", country |-> "",
   country_iso |-> "", latitude |-> 0, longitude |-> 0, postalcode |-> "",
   subdivision |-> "", subdivision_iso |-> "", timezone |-> ""]

\* C3: a valid address the dataset has no record for gives the all-defaults
\* row: 0 in numeric fields, "" in text fields, the list field absent, and no
\* scalar field null; with two datasets a miss in one defaults only the
\* fields of that dataset.
C3_MissGivesDefaults ==
  \A t \in Threads :
    Active(t) =>
      \A i \in 1 .. Len(ca[t]) :
        ValidRow(t, i) =>
          /\ (entry[t] = Spur /\ ~raw[t][i].spur.found) =>
               /\ Val(t, "client_count", i) = Some(0)
               /\ \A n \in SpurTextFields : Val(t, n, i) = Some("")
               /\ ~Val(t, "services", i).some
          /\ (entry[t] = Geoip /\ ~raw[t][i].asn.found) =>
               /\ Val(t, "asnnum", i) = Some(0)
               /\ Val(t, "asnorg", i) = Some("")
               /\ raw[t][i].city = CityFull =>
                    /\ Val(t, "city", i) = Some("Paris")
                    /\ Val(t, "country_iso", i) = Some("FR")
                    /\ Val(t, "latitude", i) = Some(48)
          /\ (entry[t] = Geoip /\ ~raw[t][i].city.found) =>
               /\ \A n \in GeoipCityTextFields : Val(t, n, i) = Some("")
               /\ Val(t, "latitude", i) = Some(0)
               /\ Val(t, "longitude", i) = Some(0)
               /\ raw[t][i].asn = AsnRec(Some(15169), Some("GOOGLE")) =>
                    /\ Val(t, "asnnum", i) = Some(15169)
                    /\ Val(t, "asnorg", i) = Some("GOOGLE")
          /\ (entry[t] = Geoip /\ ~raw[t][i].asn.found /\ ~raw[t][i].city.found) =>
               MaxmindIplookup(raw[t][i].asn, raw[t][i].city) = MaxmindIPResultDefault
          /\ (entry[t] = Asn /\ ~raw[t][i].asn.found) => Val(t, "", i) = Some("")

\* pl_full_spur has returned a row for a valid address the database misses.
C3_Witness ==
  /\ pc[T1] = "done"
  /\ entry[T1] = Spur
  /\ res[T1].tag = "ok"
  /\ \E i \in 1 .. Len(ca[T1]) :
       /\ ValidRow(T1, i)
       /\ raw[T1][i].spur = SpurMiss
       /\ res[T1].series[1].vals[i] = Some(0)
       /\ ~res[T1].series[7].vals[i].some

\* C4: in pl_full_spur a found record without a services field gives an
\* absent list, and a record with the field gives its strings in order.
C4_MissingServicesAbsent ==
  \A t \in Threads :
    (Active(t) /\ entry[t] = Spur) =>
      \A i \in 1 .. Len(ca[t]) :
        (ValidRow(t, i) /\ raw[t][i].spur.found) =>
          IF raw[t][i].spur.services.some
          THEN /\ Val(t, "services", i).some
               /\ Val(t, "services", i).v = raw[t][i].spur.services.v
          ELSE ~Val(t, "services", i).some

\* Entry j of the range column is a range of the family of ip that covers it.
RangeCovers(j, ip) ==
  /\ ca2[j].some
  /\ LET n == IpNetFromStr(ca2[j].v)
     IN /\ n.ok
        /\ n.fam = ip.fam
        /\ Covers(Prefix(n.a, n.len), ip.a)

\* C5: pl_is_in gives true for a parsed address exactly when some range of
\* its family in the range column covers it, ranges of prefix length 0
\* included.
C5_TrueIffCovered ==
  (ipc \in {"query", "done"} /\ ires.tag # "err") =>
    \A i \in 1 .. Len(ca1) :
      (ca1[i].some /\ IpAddrFromStr(ca1[i].v).ok) =>
        /\ builder[i].some
        /\ builder[i].v = (\E j \in 1 .. Len(ca2) : RangeCovers(j, IpAddrFromStr(ca1[i].v)))

\* C6: pl_is_in never matches an address against a range of the other
\* family: a true result has a covering range of the address's own family,
\* and a range column without a range of that family gives false.
C6_NoCrossFamilyMatch ==
  \A i \in 1 .. Len(ca1) :
    (ca1[i].some /\ IpAddrFromStr(ca1[i].v).ok) =>
      LET ip == IpAddrFromStr(ca1[i].v)
      IN /\ builder[i].some
         /\ builder[i].v => \E j \in 1 .. Len(ca2) : RangeCovers(j, ip)
         /\ (\A j \in 1 .. Len(ca2) :
               ca2[j].some => IpNetFromStr(ca2[j].v).fam # ip.fam)
              => builder[i] = Some(FALSE)

\* An IPv4-mapped IPv6 address was tested against a column of IPv4 ranges
\* that cover its embedded IPv4 address, and the result is false.
C6_Witness ==
  /\ ipc = "done"
  /\ ires.tag = "ok"
  /\ Len(ca2) > 0
  /\ \A j \in 1 .. Len(ca2) :
       /\ ca2[j].some
       /\ ca2[j].v.k = "v4"
       /\ ca2[j].v.len > 0
       /\ Covers(Prefix(ca2[j].v.a, ca2[j].v.len), 0)
  /\ \E i \in 1 .. Len(ca1) :
       /\ ca1[i] = Some(MappedText(0))
       /\ ires.col[i] = Some(FALSE)

\* Entry j of the range column is non-null text that is no CIDR range.
Malformed(j) == ca2[j].some /\ ~IpNetFromStr(ca2[j].v).ok

FirstMalformed ==
  CHOOSE j \in 1 .. Len(ca2) : Malformed(j) /\ \A k \in 1 .. (j - 1) : ~Malformed(k)

\* C7: with a malformed non-null entry in the range column pl_is_in fails
\* with an error naming the first malformed literal; no query row is
\* processed and no output column is returned.
C7_MalformedRangeFailsCall ==
  (\E j \in 1 .. Len(ca2) : Malformed(j)) =>
    /\ ipc \in {"build", "done"}
    /\ ca1 = <<>>
    /\ builder = <<>>
    /\ ires.tag # "ok"
    /\ ipc = "done" =>
         /\ ires.tag = "err"
         /\ ires.msg = "Invalid CIDR range: "
         /\ ires.lit = ca2[FirstMalformed].v
         /\ ires.col = <<>>
         /\ ci = FirstMalformed

\* The call has failed on a column of two different malformed literals.
C7_Witness ==
  /\ ipc = "done"
  /\ ires.tag = "err"
  /\ Len(ca2) = 2
  /\ Malformed(1)
  /\ Malformed(2)
  /\ ca2[1] # ca2[2]
  /\ ires.lit = ca2[1].v


\* Thread t takes the step that runs reload().
ReloadStep(t) == pc[t] = "reload" /\ pc'[t] = "get"

\* Thread t takes the step that runs get_or_init() and unwraps the entry.
GetStep(t) == pc[t] = "get" /\ pc'[t] # "get"

\* C8: a failed cache entry stays failed: only reload() replaces it, and a
\* call that reads it fails with the cached error, makes no initialization
\* attempt and processes no row, whatever the files are by then.
C8_FailedStaysFailed ==
  [][\A c \in Caches :
       db[c].st = "err" =>
         /\ db'[c] # db[c] => \E t \in Threads : ReloadStep(t) /\ CacheOf(entry[t]) = c
         /\ \A t \in Threads :
              (GetStep(t) /\ CacheOf(entry[t]) = c) =>
                /\ pc'[t] = "done"
                /\ res'[t].tag = "err"
                /\ entry[t] # Asn => res'[t].cause = db[c].err
                /\ made'[t] = made[t]
                /\ db'[c] = db[c]
                /\ ca'[t] = <<>>
                /\ mdb'[t] = <<>>]_vars

\* A call without the reload flag has failed on the cached error without
\* any initialization attempt, although the files can be opened by now.
C8_Witness ==
  /\ pc[T1] = "done"
  /\ ~reload[T1]
  /\ res[T1].tag = "err"
  /\ made[T1] = <<>>
  /\ db[CacheOf(entry[T1])].st = "err"
  /\ Initialize(CacheOf(entry[T1]), fsys, epoch).st = "ok"

C10_LockNotHeldAcrossRows ==
  \A t \in Threads : pc[t] = "rows" => lock[CacheOf(entry[t])] # t

\* C11: every call runs all of its rows against one snapshot of the cache:
\* every row of a call was looked up in the readers the call borrowed, and
\* while a call is in its row loop the cache entry is exactly the ready entry
\* holding those readers, so the reload of a concurrent call lands before the
\* call reads the cache or after its row loop.
C11_OneSnapshotPerCall ==
  \A t \in Threads :
    /\ Active(t) => \A i \in 1 .. Len(snaps[t]) : snaps[t][i] = mdb[t]
    /\ pc[t] = "rows" => db[CacheOf(entry[t])] = EntryOk(mdb[t])

\* A call is between two rows while another call on the same cache is about
\* to run a reload that would replace the entry.
C11_Witness ==
  /\ pc[T1] = "rows"
  /\ Len(snaps[T1]) = 1
  /\ pc[T2] = "reload"
  /\ CacheOf(entry[T1]) = CacheOf(entry[T2])
  /\ Initialize(CacheOf(entry[T2]), fsys, epoch) # db[CacheOf(entry[T1])]

\* The database files a ready entry of cache c holds a reader for, in order.
RequiredFiles(c) == IF c = SpurDb THEN <<SpurFile>> ELSE <<AsnFile, CityFile>>

\* C12: under any interleaving of calls with and without the reload flag the
\* cache entry is one consistent outcome: ready with a reader for every
\* required file, all opened from one directory in one attempt, or failed
\* with an error and no reader; it is empty only before its first use.
C12_EntryIsOneOutcome ==
  \A c \in Caches :
    /\ db[c].st \in {"none", "ok", "err"}
    /\ db[c].st = "ok" =>
         /\ Len(db[c].readers) = Len(RequiredFiles(c))
         /\ \A i \in 1 .. Len(db[c].readers) :
              /\ db[c].readers[i].file = RequiredFiles(c)[i]
              /\ db[c].readers[i].dir = db[c].readers[1].dir
              /\ db[c].readers[i].ver = db[c].readers[1].ver
         /\ db[c].err = NoErr
    /\ db[c].st = "err" => db[c].readers = <<>> /\ db[c].err.text # ""
    /\ db[c].st = "none" => db[c].readers = <<>> /\ db[c].err = NoErr
    /\ \A t \in Threads :
         (pc[t] \in {"rows", "done"} /\ CacheOf(entry[t]) = c) => db[c].st # "none"

\* Two calls on the geolocation cache, one with the reload flag and one
\* without, have both run while the ASN file opens and the City file does
\* not; the cache holds the City failure.
C12_Witness ==
  /\ pc[T1] = "done"
  /\ pc[T2] = "done"
  /\ reload[T1]
  /\ ~reload[T2]
  /\ CacheOf(entry[T1]) = MaxDb
  /\ CacheOf(entry[T2]) = MaxDb
  /\ db[MaxDb].st = "err"
  /\ db[MaxDb].err.file = CityFile
  /\ CanOpen(db[MaxDb].err.dir, AsnFile, fsys)

\* C13: calls without the reload flag that meet an uninitialized cache make
\* one initialization attempt between them: get_or_init runs only once the
\* lock is free, initializes exactly when the entry is empty and stores that
\* outcome, and otherwise leaves the stored outcome as it is without opening
\* any file.
C13_OneInitializationAttempt ==
  [][/\ \A t \in Threads :
          GetStep(t) =>
            LET c == CacheOf(entry[t])
            IN /\ lock[c] = NoThread
               /\ db[c].st = "none" =>
                    /\ Len(made'[t]) = Len(made[t]) + 1
                    /\ db'[c] = made'[t][Len(made'[t])]
               /\ db[c].st # "none" => made'[t] = made[t] /\ db'[c] = db[c]
               /\ db'[c].st # "none"
     /\ \A t, u \in Threads :
          (t # u /\ ~reload'[t] /\ ~reload'[u] /\ CacheOf(entry'[t]) = CacheOf(entry'[u])) =>
            Len(made'[t]) + Len(made'[u]) <= 1]_vars

\* A call without the flag found the cache empty, made the attempt and is in
\* its row loop with the lock; a second call without the flag on the same
\* cache waits for the lock, and then both have finished with one attempt
\* between them.
C13_Witness ==
  /\ ~reload[T1]
  /\ ~reload[T2]
  /\ CacheOf(entry[T1]) = CacheOf(entry[T2])
  /\ pc[T1] = "done"
  /\ pc[T2] = "done"
  /\ Len(made[T1]) = 1
  /\ made[T2] = <<>>
  /\ res[T1].tag = "ok"
  /\ res[T2].tag = "ok"
  /\ ca[T2] # <<>>

\* The output row a call gives for input row i taken on its own.
RowAlone(t, i) ==
  FinishOf(entry[t], RowOf(entry[t], NewBuilders(entry[t]), ca[t][i], raw[t][i]))

\* C14: within one call the output has as many rows as the input consumed so
\* far and output row i is the row of input row i: after k rows every column,
\* the services list included, has k entries, and entry i is what input row i
\* gives; the same for the boolean column of pl_is_in.
C14_RowsStayAligned ==
  /\ \A t \in Threads :
       Active(t) =>
         /\ Len(raw[t]) = Len(ca[t])
         /\ Len(Cols(t)) = Len(FinishOf(entry[t], NewBuilders(entry[t])))
         /\ \A k \in 1 .. Len(Cols(t)) :
              /\ Len(Cols(t)[k].vals) = Len(ca[t])
              /\ \A i \in 1 .. Len(ca[t]) : Cols(t)[k].vals[i] = RowAlone(t, i)[k].vals[1]
  /\ ipc = "query" \/ (ipc = "done" /\ ires.tag = "ok") =>
       /\ Len(builder) = Len(ca1)
       /\ \A i \in 1 .. Len(ca1) : builder[i] = IsInRow(ca1[i], v4trie, v6trie)
  /\ ipc = "done" /\ ires.tag = "ok" => ires.col = builder

\* pl_full_spur has returned two rows, the first for a null input and the
\* second for an address the database has a record for.
C14_Witness ==
  /\ pc[T1] = "done"
  /\ entry[T1] = Spur
  /\ res[T1].tag = "ok"
  /\ Len(ca[T1]) = 2
  /\ ~ca[T1][1].some
  /\ ValidRow(T1, 2)
  /\ raw[T1][2].spur.found
  /\ Len(res[T1].series) = 7

\* C15: the struct a call produces has exactly the fields (name, type,
\* order) its output-shape function declares: spur_full_output for
\* pl_full_spur, the services list included, and geoip_full_output for
\* pl_full_geoip.
C15_ShapeMatchesDeclaration ==
  \A t \in Threads :
    (pc[t] = "rows" /\ entry[t] \in {Spur, Geoip}) =>
      IF entry[t] = Spur THEN SpurSeriesFields(bld[t]) = spur_full_output
      ELSE GeoipSeriesFields(bld[t]) = geoip_full_output

\* C16: whenever initialization fails, the error message an enrichment entry
\* point surfaces names the dataset that failed and states the override
\* environment variable that configures the search directory.
C16_FailureMessageNamesDatasetAndOverride ==
  \A t \in Threads :
    (pc[t] = "done" /\ res[t].tag = "err" /\ db[CacheOf(entry[t])].st = "err") =>
      /\ NamesDataset(res[t].cause.text)
      /\ NamesOverride(res[t].cause.text)

\* C17: a missing or unreadable database directory or file surfaces as an
\* error result of the call with a message; no enrichment entry point ends
\* in a panic, and none returns rows when its databases could not be opened.
C17_MissingFileIsErrorResult ==
  /\ xpc = "done" =>
       /\ xres.tag # "panic"
       /\ (xres.tag = "err" => xres.text # "")
  /\ \A t \in Threads :
       pc[t] = "done" =>
         \/ res[t].tag = "err" /\ res[t].text # "" /\ ca[t] = <<>> /\ mdb[t] = <<>>
         \/ /\ res[t].tag = "ok"
            /\ Len(mdb[t]) = Len(RequiredFiles(CacheOf(entry[t])))
            /\ \A i \in 1 .. Len(snaps[t]) : snaps[t][i] = mdb[t]

\* C18: the numeric conversions undo each other: decoding the encoding of a
\* valid IPv4 text gives the text back, encoding the decoding of an integer
\* gives the integer back, decoding is defined for every integer of the
\* address width, and a.b.c.d encodes to a, b, c, d as big-endian octets
\* (a * 2^24 + b * 2^16 + c * 2^8 + d at the octet width of 8).
C18_NumericRoundTrip ==
  /\ (npc \in {"enc", "encdec"} /\ nin.some /\ Ipv4AddrFromStr(nin.v).ok) =>
       /\ nmid.some
       /\ nmid.v = ParseOctet(nin.v[1]).v * Pow2(3 * OctetBits)
                     + ParseOctet(nin.v[2]).v * Pow2(2 * OctetBits)
                     + ParseOctet(nin.v[3]).v * Pow2(OctetBits)
                     + ParseOctet(nin.v[4]).v
  /\ (npc = "encdec" /\ nin.some /\ Ipv4AddrFromStr(nin.v).ok) => nout = nin
  /\ (npc \in {"dec", "decenc"} /\ nin.some) => nmid.some
  /\ (npc = "decenc" /\ nin.some) => nout = nin

\* A text with a two-digit octet and four different octets has been encoded
\* and decoded again.
C18_Witness ==
  /\ npc = "encdec"
  /\ nin.some
  /\ Ipv4AddrFromStr(nin.v).ok
  /\ Len(nin.v[1]) = 2
  /\ \A i, j \in 1 .. 4 : i # j => nin.v[i] # nin.v[j]
  /\ nout.some

\* C19: reload() is idempotent on the cached outcome: when the cache holds
\* the outcome of an initialization under the present directory setting and
\* files, as it does after a first reload, a further reload leaves the same
\* outcome: ready on the same files, or failed with the same error.
C19_ReloadIdempotent ==
  [][\A t \in Threads :
       LET c == CacheOf(entry[t])
       IN (ReloadStep(t) /\ db[c] = Initialize(c, fsys, epoch)) =>
            /\ db'[c] = db[c]
            /\ made'[t] = Append(made[t], db[c])]_vars

\* Two calls with the reload flag have reloaded the same cache one after the
\* other with nothing changed in between: the first has finished with
\* output, the second has just reloaded, and both got the outcome the cache
\* holds.
C19_Witness ==
  /\ reload[T1]
  /\ reload[T2]
  /\ CacheOf(entry[T1]) = CacheOf(entry[T2])
  /\ pc[T1] = "done"
  /\ res[T1].tag = "ok"
  /\ pc[T2] = "get"
  /\ made[T1] # <<>>
  /\ made[T2] # <<>>
  /\ made[T1][1] = made[T2][1]
  /\ db[CacheOf(entry[T1])] = made[T2][1]
  /\ epoch > 0

\* The override variable of the family of cache c.
OverrideOf(c, fs) == IF c = SpurDb THEN fs.spurvar ELSE fs.maxvar

\* The entry e is an outcome of searching under the environment fs: with the
\* override set it is about the override's directory; otherwise about the
\* first default path that exists; otherwise the directory was not found.
ReflectsSetting(c, e, fs) ==
  LET var == OverrideOf(c, fs)
      about(dir) ==
        \/ e.st = "ok" /\ \A i \in 1 .. Len(e.readers) : e.readers[i].dir = dir
        \/ e.st = "err" /\ e.err.dir = dir
  IN IF var.some THEN about(var.v)
     ELSE IF UsrLocal \in fs.exists THEN about(UsrLocal)
     ELSE IF Homebrew \in fs.exists THEN about(Homebrew)
     ELSE e.st = "err" /\ e.err.dir = "" /\ e.err.file = ""

\* C20: the directory is resolved only by an initialization attempt (the
\* first use or a reload), the override before the default paths in their
\* order; a change of the override or of the files leaves the cache alone, a
\* call without the reload flag keeps using the cached outcome, and a reload
\* stores the outcome of the present setting.
C20_ResolvedOnlyAtInitialization ==
  [][/\ \A c \in Caches :
          db'[c] # db[c] =>
            /\ \E t \in Threads :
                 /\ CacheOf(entry[t]) = c
                 /\ ReloadStep(t) \/ (GetStep(t) /\ db[c].st = "none")
            /\ ReflectsSetting(c, db'[c], fsys)
     /\ (fsys' # fsys \/ epoch' # epoch) => db' = db /\ mdb' = mdb
     /\ \A t \in Threads :
          LET c == CacheOf(entry[t])
          IN /\ (GetStep(t) /\ db[c].st # "none") =>
                  /\ db'[c] = db[c]
                  /\ db[c].st = "ok" => mdb'[t] = db[c].readers
             /\ ReloadStep(t) =>
                  /\ ReflectsSetting(c, db'[c], fsys)
                  /\ db'[c].st = "ok" =>
                       \A i \in 1 .. Len(db'[c].readers) : db'[c].readers[i].ver = epoch]_vars

\* The cache was loaded from a default path and the override was set
\* afterwards: a call without the flag has run on the readers of the default
\* path, and a call with the flag has then run on readers of the override's
\* directory although the default path still exists.
C20_Witness ==
  /\ pc[T1] = "done"
  /\ pc[T2] = "done"
  /\ CacheOf(entry[T1]) = CacheOf(entry[T2])
  /\ ~reload[T1]
  /\ reload[T2]
  /\ made[T1] = <<>>
  /\ res[T1].tag = "ok"
  /\ res[T2].tag = "ok"
  /\ snaps[T1] # <<>>
  /\ snaps[T2] # <<>>
  /\ snaps[T1][1][1].dir = UsrLocal
  /\ snaps[T2][1][1].dir = Custom
  /\ snaps[T2][1][1].ver = epoch
  /\ OverrideOf(CacheOf(entry[T2]), fsys) = Some(Custom)
  /\ UsrLocal \in fsys.exists

\* C21: the reload flag is honoured once per call and before any row, and a
\* call makes at most one initialization attempt: a call with the flag makes
\* exactly one, in its reload, and its get_or_init finds the entry populated;
\* a call without the flag goes straight to get_or_init and makes one attempt
\* exactly when the entry is empty; no attempt and no change of the entry
\* happens while the call is in its row loop.
C21_OneAttemptBeforeRows ==
  [][\A t \in Threads :
       LET c == CacheOf(entry[t])
       IN /\ Len(made'[t]) <= 1
          /\ (pc[t] = "idle" /\ pc'[t] # "idle") =>
               pc'[t] = (IF reload'[t] THEN "reload" ELSE "get")
          /\ ReloadStep(t) =>
               /\ reload[t]
               /\ ca[t] = <<>>
               /\ made[t] = <<>>
               /\ Len(made'[t]) = 1
          /\ GetStep(t) =>
               /\ ca[t] = <<>>
               /\ IF reload[t]
                  THEN db[c].st # "none" /\ Len(made[t]) = 1 /\ made'[t] = made[t]
                  ELSE /\ made[t] = <<>>
                       /\ Len(made'[t]) = (IF db[c].st = "none" THEN 1 ELSE 0)
          /\ pc[t] = "rows" => made'[t] = made[t] /\ db'[c] = db[c]]_vars

\* A call with the flag has returned two rows after one attempt, and a call
\* without the flag on the same cache has returned rows after none.
C21_Witness ==
  /\ pc[T1] = "done"
  /\ reload[T1]
  /\ res[T1].tag = "ok"
  /\ Len(ca[T1]) = 2
  /\ Len(made[T1]) = 1
  /\ pc[T2] = "done"
  /\ ~reload[T2]
  /\ CacheOf(entry[T2]) = CacheOf(entry[T1])
  /\ res[T2].tag = "ok"
  /\ ca[T2] # <<>>
  /\ made[T2] = <<>>

\* C22: for a valid address pl_get_asn gives "AS<number> <organization>"
\* when the ASN dataset has a record with an organization, "AS<number>" when
\* the organization is missing or empty, with 0 for a missing number, and
\* the empty string, neither null nor "AS0", when the dataset has no record.
C22_AsnText ==
  \A t \in Threads :
    (Active(t) /\ entry[t] = Asn) =>
      \A i \in 1 .. Len(ca[t]) :
        ValidRow(t, i) =>
          LET r == raw[t][i].asn
              out == Cols(t)[1].vals[i]
              num == IF r.number.some THEN r.number.v ELSE 0
              org == IF r.org.some THEN r.org.v ELSE ""
          IN /\ out.some
             /\ ~r.found => out.v = ""
             /\ (r.found /\ org = "") => out.v = "AS" \o ToString(num)
             /\ (r.found /\ org # "") => out.v = "AS" \o ToString(num) \o " " \o org
             /\ r = AsnRec(Some(15169), Some("GOOGLE")) => out.v = "AS15169 GOOGLE"
             /\ r = AsnRec(Some(64512), None) => out.v = "AS64512"
             /\ r = AsnRec(None, Some("")) => out.v = "AS0"

\* pl_get_asn has returned two rows for valid addresses: one the dataset has
\* no record for, one with a number and an organization.
C22_Witness ==
  /\ pc[T1] = "done"
  /\ entry[T1] = Asn
  /\ res[T1].tag = "ok"
  /\ Len(ca[T1]) = 2
  /\ ValidRow(T1, 1)
  /\ ValidRow(T1, 2)
  /\ ~raw[T1][1].asn.found
  /\ raw[T1][2].asn = AsnRec(Some(15169), Some("GOOGLE"))
  /\ res[T1].series[1].vals = <<Some(""), Some("AS15169 GOOGLE")>>

\* The declared type of field i of the table is one a builder exists for.
Supported(i) == btable[i][2] \in {"UInt32", "Float32", "Float64", "String"}

\* C23: create_builders gives one builder per field in table order, an
\* Invalid builder named "<field>_error" for an unsupported type; every
\* append_value and append_null adds exactly one entry to its builder and
\* none to the others; append_value stores the value exactly when its type is
\* the builder's and null otherwise; an Invalid builder holds only nulls.
C23_BuilderNeverMismatches ==
  [][/\ Len(bws') = Len(btable')
     /\ \A i \in 1 .. Len(bws') :
          /\ Supported(i)' => bws'[i].name = btable'[i][1] /\ bws'[i].kind = btable'[i][2]
          /\ ~Supported(i)' =>
               /\ bws'[i].name = btable'[i][1] \o "_error"
               /\ bws'[i].kind = "Invalid"
               /\ \A k \in 1 .. Len(bws'[i].vals) : bws'[i].vals[k] = None
     /\ blast'.op \in {"value", "null"} =>
          /\ btable' = btable
          /\ \A i \in 1 .. Len(bws) :
               IF i = blast'.i
               THEN /\ Len(bws'[i].vals) = Len(bws[i].vals) + 1
                    /\ SubSeq(bws'[i].vals, 1, Len(bws[i].vals)) = bws[i].vals
                    /\ bws'[i].vals[Len(bws'[i].vals)] =
                         (IF blast'.op = "value" /\ Supported(i) /\ blast'.av.ty = btable[i][2]
                          THEN Some(blast'.av.val) ELSE None)
               ELSE bws'[i] = bws[i]]_vars

\* A Float32 value has been appended to the UInt32 builder of the mixed
\* table, and a value to the builder of an unsupported field.
C23_Witness ==
  /\ btable = MixedFields
  /\ Len(bws[1].vals) = 1
  /\ Len(bws[5].vals) = 1
  /\ blast.op = "value"
  /\ blast.i = 1
  /\ blast.av.ty = "Float32"
  /\ bws[1].vals = <<None>>

\* C24: once an initialization attempt has completed the cache entry is never
\* empty again: reload and get_or_init leave a ready or a failed outcome, an
\* entry that is populated stays populated, and no call ends with the
\* "is not initialized" error.
C24_NeverUninitializedAgain ==
  [][/\ \A c \in Caches : db[c].st # "none" => db'[c].st \in {"ok", "err"}
     /\ \A t \in Threads :
          /\ (ReloadStep(t) \/ GetStep(t)) => db'[CacheOf(entry[t])].st \in {"ok", "err"}
          /\ res'[t].tag = "err" =>
               /\ res'[t] # UninitRes(entry'[t])
               /\ res'[t] = FailedRes(entry'[t], res'[t].cause)]_vars

\* Both caches have been used: a call on the context cache has returned
\* rows, and a call on the geolocation cache has failed on the stored City
\* failure with the "Failed to initialize" error.
C24_Witness ==
  /\ db[SpurDb].st = "ok"
  /\ db[MaxDb].st = "err"
  /\ pc[T1] = "done"
  /\ entry[T1] = Spur
  /\ res[T1].tag = "ok"
  /\ pc[T2] = "done"
  /\ entry[T2] = Geoip
  /\ res[T2] = FailedRes(Geoip, db[MaxDb].err)
  /\ db[MaxDb].err.file = CityFile

\* A cache lock is held only by a call in its row loop on that cache, so a
\* call in reload or waiting in get_or_init holds no lock and a call never
\* holds two.
LockOnlyInRows ==
  \A c \in Caches :
    lock[c] # NoThread => pc[lock[c]] = "rows" /\ CacheOf(entry[lock[c]]) = c

\* C25: under fair scheduling every enrichment call terminates, whatever the
\* mix of reload flags of the concurrent calls: reload has released the lock
\* before the call's get_or_init asks for it, a call holds at most the lock
\* of its own cache and only from get_or_init to its return, and a call that
\* has started reaches its result.
C25_CallsTerminate ==
  /\ []LockOnlyInRows
  /\ \A t \in Threads : (pc[t] \in {"reload", "get", "rows"}) ~> (pc[t] = "done")

\* A call with the flag has reloaded and waits in get_or_init for the lock
\* that a concurrent call with the flag holds in its row loop.
C25_Witness ==
  /\ pc[T1] = "rows"
  /\ reload[T1]
  /\ lock[CacheOf(entry[T1])] = T1
  /\ pc[T2] = "get"
  /\ reload[T2]
  /\ made[T2] # <<>>
  /\ CacheOf(entry[T2]) = CacheOf(entry[T1])

\* C26: in a call with the force-reload flag, the entry that get_or_init
\* hands to the row loop is the outcome of an initialization made at or after
\* the call's own reload: its own, or that of a reload another call made on
\* the same cache in between. It is never an older outcome, and the readers
\* the row loop borrows are those of that entry.
C26_NeverOlderThanOwnReload ==
  [][\A t \in Threads :
       GetStep(t) /\ reload[t] =>
         LET c == CacheOf(entry[t])
         IN /\ db[c] \in since[t]
            /\ db'[c] = db[c]
            /\ made'[t] = made[t]
            /\ pc'[t] = "rows" => mdb'[t] = db[c].readers /\ lock'[c] = t]_vars

\* A call with the flag runs its row loop on readers that are not those of
\* its own reload: another call reloaded the cache, after the environment had
\* changed, between this call's reload and its get_or_init.
C26_Witness ==
  \E t \in Threads :
    /\ pc[t] = "rows"
    /\ reload[t]
    /\ Len(made[t]) = 1
    /\ made[t][1].st = "ok"
    /\ mdb[t] # made[t][1].readers
    /\ mdb[t] = db[CacheOf(entry[t])].readers
    /\ ca[t] # <<>>

\* The prefixes of family fam among the first n entries of the range column,
\* nulls left out.
RangesRead(fam, n) ==
  {Prefix(IpNetFromStr(ca2[i].v).a, IpNetFromStr(ca2[i].v).len) :
     i \in {j \in 1 .. n : /\ ca2[j].some
                            /\ IpNetFromStr(ca2[j].v).ok
                            /\ IpNetFromStr(ca2[j].v).fam = fam}}

OnlyNulls == \A i \in 1 .. Len(ca2) : ~ca2[i].some

\* C27: pl_is_in skips the null entries of the range column while it builds
\* the tries: a null neither fails the call nor adds a range, the call fails
\* only at a non-null entry that is not a CIDR, and with a range column of
\* nulls only, or an empty one, every parseable address gets false (and the
\* other rows null).
C27_NullRangesSkipped ==
  /\ v4trie = RTrieNew \cup RangesRead("V4", ci)
  /\ v6trie = RTrieNew \cup RangesRead("V6", ci)
  /\ ires.tag = "err" =>
       /\ ci >= 1
       /\ ca2[ci].some
       /\ ~IpNetFromStr(ca2[ci].v).ok
       /\ ires.lit = ca2[ci].v
  /\ ipc = "build" => \A i \in 1 .. ci : ~ca2[i].some \/ IpNetFromStr(ca2[i].v).ok
  /\ OnlyNulls /\ ipc \in {"query", "done"} =>
       /\ ires.tag # "err"
       /\ ci = Len(ca2)
       /\ \A i \in 1 .. Len(builder) :
            builder[i] = IF ca1[i].some /\ IpAddrFromStr(ca1[i].v).ok
                         THEN Some(FALSE) ELSE None

\* A call whose range column holds nulls only has returned false for a
\* parseable address.
C27_Witness ==
  /\ ipc = "done"
  /\ ires.tag = "ok"
  /\ ca2 # <<>>
  /\ OnlyNulls
  /\ \E i \in 1 .. Len(ca1) :
       /\ ca1[i].some
       /\ IpAddrFromStr(ca1[i].v).ok
       /\ ires.col[i] = Some(FALSE)

====
